---------------------------- MODULE Spec2Model ----------------------------
(***************************************************************************)
(* A model of ferrum.doctest (src/index.js): the extraction of examples    *)
(* from markdown syntax trees and from documentation.js comment objects,   *)
(* generatingSourceMap, which lets an arbitrary renderer produce the test  *)
(* file while a source map is built for it, and generateTests, which       *)
(* collects the examples of a project and hands them to it.                *)
(*                                                                         *)
(* Representation.  A text (a JavaScript string) is a sequence of          *)
(* one-character strings; "\n" is the line feed.  The placeholder          *)
(* `<<example:UUID>>` that generatingSourceMap hands to the renderer is    *)
(* one symbol of a text (the string built by Placeholder), because the     *)
(* regular expression of src/index.js:511 only ever matches it whole.      *)
(* A path is the sequence of its segments.  JavaScript's null is JSNull.   *)
(***************************************************************************)
EXTENDS Integers, Sequences, FiniteSets, TLC

VARIABLES
    \* extractFromMarkdown / extractFromMdast
    mdDoc,           \* the markdown document handed to extractFromMarkdown
    mdFile,          \* opts.file
    mdAst,           \* the tree remark's parse returned
    mdRecords,       \* the sequence extractFromMdast returned
    mdPc,            \* "input" | "done"
    \* extractFromDoc
    doc,             \* one documentation object of documentation.js
    docRecords,      \* the sequence extractFromDoc returned
    docPc,           \* "input" | "done"
    \* generatingSourceMap
    examples,        \* the examples handed to generatingSourceMap
    renderer,        \* the renderer, given by the template it fills in
    missing,         \* the files readFile cannot read
    exampleCache,    \* the [uuid, example] pairs, in the order of examples
    gen,             \* the text the renderer returned
    lastMatchEnd,
    outLineNo,
    match,           \* the match the loop is at: index, match, outIndent, uuid
    inLineNo,        \* the line of the file the code line the loop is at comes from
    buf,
    sourceMap,       \* the mappings added to the SourceMapGenerator, in order
    sites,           \* for each mapping: the match and the code line it is for
    sourceCache,
    reads,           \* the files read from disk, in order
    pc,              \* "start" | "post" | "line" | "read" | "await" | "done" | "failed"
    result,          \* what the call resolved to
    \* generateTests
    source,          \* the documentation objects buildDoc finds in opts.source
    markdownSource,  \* the .md files found below opts.markdownSource
    docExamples,     \* what findDocExamples resolved to
    mdExamples,      \* what findMarkdownExamples resolved to
    batch,           \* the examples handed to generatingSourceMap
    gtPc,            \* "start" | "docs" | "markdown" | "rendered"
    \* loadSourceFile, in several calls of generatingSourceMap
    calls,           \* for each call in flight: [needs, k, sourceCache, reads, pc]
    \* the exec command (cli.js)
    params,          \* what yargs parsed: the command name, the parameters, '--'
    execPc,          \* "parse", "handler", the awaits of init, "ending", "exited"
    yargsOut,        \* what yargs wrote to stdout
    stderr,          \* the messages written to stderr, in order
    exitCode,        \* process.exitCode, then the exit status; null while neither is set
    tmp,             \* the temporary directory: what of it exists
    tmpWrites,       \* the writeFile calls of cliGenerate: "pending" | "ok" | "failed"
    envSet,          \* the environment variables set so far
    child,           \* the command handed to spawn, and the process run for it
    \* cliGenerate (cli.js)
    cliParams,       \* params: out and sourcemap, as yargs parsed them
    testData,        \* the text generateTests resolves to
    cliPc,           \* "generate" | "writing" | "done" | "rejected"
    stdout,          \* what was written to stdout
    writeForks,      \* forks: the writeFile calls issued, path :> "pending" | "ok" | "failed"
    written,         \* the files written: path :> content
    \* findPkg (cli.js)
    pkgFs,           \* for each directory from the root to the start: its package.json
    tryParents,      \* opts.tryParents
    pkgCur,          \* the directory the current call of findPkg was given
    examined,        \* the directories examined, in order
    pkgPc,           \* "statDir" | "statFile" | "readFile" | "done" | "failed"
    pkgResult,       \* what findPkg resolved to, or the error it threw (<<>>: neither yet)
    \* rmRecursiveSync (cli.js)
    rmFs,            \* the file system: the kind of every existing path
    rmFs0,           \* the file system before the call
    rmFile,          \* the argument of rmRecursiveSync
    rmLog,           \* the paths removed by unlinkSync and rmdirSync, in order
    rmPc,            \* "call" | "returned" | "threw"
    \* _requireNocache (index.js)
    requireCache,    \* require.cache: the instance cached for each module, NoEntry if none
    loads,           \* the number of module instances created so far
    lastCall,        \* the last call: its kind, its module, require.cache before it, what it returned
    \* _findFs and findMarkdownExamples (index.js)
    findPaths,       \* paths: the argument
    findFn,          \* fn: the filter of _findFs
    findPending,     \* the stat, readdir and readFile operations in flight
    findSettled,     \* the operations that have completed, in the order of their completion
    findFiles,       \* the paths _findFs resolved to
    findPc,          \* "start" | "listing" | "reading" | "done"
    findResult       \* what the call resolved to

mdVars ==
    <<mdDoc, mdFile, mdAst, mdRecords, mdPc>>

docVars ==
    <<doc, docRecords, docPc>>

gsmVars ==
    <<examples, renderer, missing, exampleCache, gen, lastMatchEnd,
      outLineNo, match, inLineNo, buf, sourceMap, sites, sourceCache,
      reads, pc, result>>

gtVars ==
    <<source, markdownSource, docExamples, mdExamples, batch, gtPc>>

loadVars ==
    <<calls>>

execVars ==
    <<params, execPc, yargsOut, stderr, exitCode, tmp, tmpWrites,
      envSet, child>>

cliGenVars ==
    <<cliParams, testData, cliPc, stdout, writeForks, written>>

pkgVars ==
    <<pkgFs, tryParents, pkgCur, examined, pkgPc, pkgResult>>

rmVars ==
    <<rmFs, rmFs0, rmFile, rmLog, rmPc>>

reqVars ==
    <<requireCache, loads, lastCall>>

findVars ==
    <<findPaths, findFn, findPending, findSettled, findFiles, findPc,
      findResult>>

vars ==
    <<mdDoc, mdFile, mdAst, mdRecords, mdPc, doc, docRecords, docPc,
      examples, renderer, missing, exampleCache, gen, lastMatchEnd,
      outLineNo, match, inLineNo, buf, sourceMap, sites, sourceCache,
      reads, pc, result, source, markdownSource, docExamples,
      mdExamples, batch, gtPc, calls, params, execPc, yargsOut, stderr,
      exitCode, tmp, tmpWrites, envSet, child, cliParams, testData,
      cliPc, stdout, writeForks, written, pkgFs, tryParents, pkgCur,
      examined, pkgPc, pkgResult, rmFs, rmFs0, rmFile, rmLog, rmPc,
      requireCache, loads, lastCall, findPaths, findFn, findPending,
      findSettled, findFiles, findPc, findResult>>

JSNull == "null"
JSUndefined == "undefined"

\* no call of extractFromMarkdown
MdIdle ==
    /\ mdDoc = [lead |-> 0, blocks |-> <<>>]
    /\ mdFile = JSNull
    /\ mdAst = JSNull
    /\ mdRecords = <<>>
    /\ mdPc = "idle"

\* no call of extractFromDoc
DocIdle ==
    /\ doc = JSNull
    /\ docRecords = <<>>
    /\ docPc = "idle"

\* no call of generatingSourceMap
GsmIdle ==
    /\ examples = <<>>
    /\ renderer = <<>>
    /\ missing = {}
    /\ exampleCache = <<>>
    /\ gen = <<>>
    /\ lastMatchEnd = 0
    /\ outLineNo = 0
    /\ match = <<>>
    /\ inLineNo = 0
    /\ buf = <<>>
    /\ sourceMap = <<>>
    /\ sites = <<>>
    /\ sourceCache = <<>>
    /\ reads = <<>>
    /\ pc = "idle"
    /\ result = JSNull

\* no call of generateTests
GtIdle ==
    /\ source = <<>>
    /\ markdownSource = <<>>
    /\ docExamples = <<>>
    /\ mdExamples = <<>>
    /\ batch = <<>>
    /\ gtPc = "idle"

\* no call of loadSourceFile
LoadIdle ==
    /\ calls = <<>>

\* no call of the exec command
ExecIdle ==
    /\ params = JSNull
    /\ execPc = "idle"
    /\ yargsOut = <<>>
    /\ stderr = <<>>
    /\ exitCode = JSNull
    /\ tmp = JSNull
    /\ tmpWrites = <<>>
    /\ envSet = {}
    /\ child = JSNull

\* no call of cliGenerate
CliGenIdle ==
    /\ cliParams = JSNull
    /\ testData = <<>>
    /\ cliPc = "idle"
    /\ stdout = <<>>
    /\ writeForks = <<>>
    /\ written = <<>>

\* no call of findPkg
PkgIdle ==
    /\ pkgFs = <<>>
    /\ tryParents = FALSE
    /\ pkgCur = <<>>
    /\ examined = <<>>
    /\ pkgPc = "idle"
    /\ pkgResult = <<>>

\* no call of rmRecursiveSync
RmIdle ==
    /\ rmFs = <<>>
    /\ rmFs0 = <<>>
    /\ rmFile = <<>>
    /\ rmLog = <<>>
    /\ rmPc = "idle"

\* no call of _requireNocache
ReqIdle ==
    /\ requireCache = <<>>
    /\ loads = 0
    /\ lastCall = JSNull

\* no call of findMarkdownExamples
FindIdle ==
    /\ findPaths = <<>>
    /\ findFn = ""
    /\ findPending = {}
    /\ findSettled = <<>>
    /\ findFiles = <<>>
    /\ findPc = "idle"
    /\ findResult = <<>>

\* For each function of the module: the state of all the others, which a
\* step of the function leaves alone, and the predicate that none of them
\* is being called.
MdRest ==
    <<docVars, gsmVars, gtVars, loadVars, execVars, cliGenVars, pkgVars,
      rmVars, reqVars, findVars>>
MdRestIdle ==
    /\ DocIdle
    /\ GsmIdle
    /\ GtIdle
    /\ LoadIdle
    /\ ExecIdle
    /\ CliGenIdle
    /\ PkgIdle
    /\ RmIdle
    /\ ReqIdle
    /\ FindIdle

DocRest ==
    <<mdVars, gsmVars, gtVars, loadVars, execVars, cliGenVars, pkgVars,
      rmVars, reqVars, findVars>>
DocRestIdle ==
    /\ MdIdle
    /\ GsmIdle
    /\ GtIdle
    /\ LoadIdle
    /\ ExecIdle
    /\ CliGenIdle
    /\ PkgIdle
    /\ RmIdle
    /\ ReqIdle
    /\ FindIdle

GsmRest ==
    <<mdVars, docVars, gtVars, loadVars, execVars, cliGenVars, pkgVars,
      rmVars, reqVars, findVars>>
GsmRestIdle ==
    /\ MdIdle
    /\ DocIdle
    /\ GtIdle
    /\ LoadIdle
    /\ ExecIdle
    /\ CliGenIdle
    /\ PkgIdle
    /\ RmIdle
    /\ ReqIdle
    /\ FindIdle

GtRest ==
    <<mdVars, docVars, gsmVars, loadVars, execVars, cliGenVars, pkgVars,
      rmVars, reqVars, findVars>>
GtRestIdle ==
    /\ MdIdle
    /\ DocIdle
    /\ GsmIdle
    /\ LoadIdle
    /\ ExecIdle
    /\ CliGenIdle
    /\ PkgIdle
    /\ RmIdle
    /\ ReqIdle
    /\ FindIdle

LoadRest ==
    <<mdVars, docVars, gsmVars, gtVars, execVars, cliGenVars, pkgVars,
      rmVars, reqVars, findVars>>
LoadRestIdle ==
    /\ MdIdle
    /\ DocIdle
    /\ GsmIdle
    /\ GtIdle
    /\ ExecIdle
    /\ CliGenIdle
    /\ PkgIdle
    /\ RmIdle
    /\ ReqIdle
    /\ FindIdle

ExecRest ==
    <<mdVars, docVars, gsmVars, gtVars, loadVars, cliGenVars, pkgVars,
      rmVars, reqVars, findVars>>
ExecRestIdle ==
    /\ MdIdle
    /\ DocIdle
    /\ GsmIdle
    /\ GtIdle
    /\ LoadIdle
    /\ CliGenIdle
    /\ PkgIdle
    /\ RmIdle
    /\ ReqIdle
    /\ FindIdle

CliGenRest ==
    <<mdVars, docVars, gsmVars, gtVars, loadVars, execVars, pkgVars,
      rmVars, reqVars, findVars>>
CliGenRestIdle ==
    /\ MdIdle
    /\ DocIdle
    /\ GsmIdle
    /\ GtIdle
    /\ LoadIdle
    /\ ExecIdle
    /\ PkgIdle
    /\ RmIdle
    /\ ReqIdle
    /\ FindIdle

PkgRest ==
    <<mdVars, docVars, gsmVars, gtVars, loadVars, execVars, cliGenVars,
      rmVars, reqVars, findVars>>
PkgRestIdle ==
    /\ MdIdle
    /\ DocIdle
    /\ GsmIdle
    /\ GtIdle
    /\ LoadIdle
    /\ ExecIdle
    /\ CliGenIdle
    /\ RmIdle
    /\ ReqIdle
    /\ FindIdle

RmRest ==
    <<mdVars, docVars, gsmVars, gtVars, loadVars, execVars, cliGenVars,
      pkgVars, reqVars, findVars>>
RmRestIdle ==
    /\ MdIdle
    /\ DocIdle
    /\ GsmIdle
    /\ GtIdle
    /\ LoadIdle
    /\ ExecIdle
    /\ CliGenIdle
    /\ PkgIdle
    /\ ReqIdle
    /\ FindIdle

ReqRest ==
    <<mdVars, docVars, gsmVars, gtVars, loadVars, execVars, cliGenVars,
      pkgVars, rmVars, findVars>>
ReqRestIdle ==
    /\ MdIdle
    /\ DocIdle
    /\ GsmIdle
    /\ GtIdle
    /\ LoadIdle
    /\ ExecIdle
    /\ CliGenIdle
    /\ PkgIdle
    /\ RmIdle
    /\ FindIdle

FindRest ==
    <<mdVars, docVars, gsmVars, gtVars, loadVars, execVars, cliGenVars,
      pkgVars, rmVars, reqVars>>
FindRestIdle ==
    /\ MdIdle
    /\ DocIdle
    /\ GsmIdle
    /\ GtIdle
    /\ LoadIdle
    /\ ExecIdle
    /\ CliGenIdle
    /\ PkgIdle
    /\ RmIdle
    /\ ReqIdle

-----------------------------------------------------------------------------
(* Texts *)

LF == "\n"

RECURSIVE Flatten(_)
\* join(seq, ''): the concatenation of a sequence of texts
Flatten(ts) == IF ts = <<>> THEN <<>> ELSE Head(ts) \o Flatten(Tail(ts))

RECURSIVE JoinLines(_)
\* lines.join('\n')
JoinLines(ls) ==
    IF ls = <<>> THEN <<>>
    ELSE IF Len(ls) = 1 THEN ls[1]
    ELSE ls[1] \o <<LF>> \o JoinLines(Tail(ls))

RECURSIVE SplitFrom(_, _, _)
\* the lines of t[i..], cur being the part of the current line already read
SplitFrom(t, i, cur) ==
    IF i > Len(t) THEN <<cur>>
    ELSE IF t[i] = LF THEN <<cur>> \o SplitFrom(t, i + 1, <<>>)
    ELSE SplitFrom(t, i + 1, Append(cur, t[i]))

\* String.prototype.split('\n')
SplitLines(t) == SplitFrom(t, 1, <<>>)

\* the number of line feeds in a text
CountLF(t) == Cardinality({i \in 1..Len(t) : t[i] = LF})

\* path.basename of a path given by its segments
Basename(p) == p[Len(p)]

-----------------------------------------------------------------------------
(* Markdown documents and the tree remark parses them to.                  *)
(*                                                                         *)
(* A document is a sequence of blocks, one blank line between two blocks,  *)
(* after `lead` blank lines.  A block of depth 1 lies in a block quote;    *)
(* consecutive blocks of depth 1 lie in the same one.                      *)

MaxBlocks == 2
MaxBody == 2

CodeLine == <<"c">>

Blocks ==
    [kind : {"para"}, n : {1}, closed : {TRUE}, blank : {FALSE}, depth : 0..1]
    \cup [kind : {"indented"}, n : 1..MaxBody, closed : {TRUE}, blank : {FALSE},
          depth : 0..1]
    \cup [kind : {"fenced"}, n : 0..MaxBody, closed : BOOLEAN, blank : {FALSE},
          depth : 0..1]
    \cup [kind : {"fenced"}, n : 2..MaxBody, closed : {TRUE}, blank : {TRUE},
          depth : 0..1]

\* A fence that is never closed runs to the end of its container, so nothing
\* follows it there; two indented chunks with only a blank line between them
\* are one block.
WellFormedBlocks(bs) ==
    \A i \in 1..Len(bs) :
        /\ (bs[i].kind = "fenced" /\ ~bs[i].closed) =>
              \/ i = Len(bs)
              \/ bs[i].depth = 1 /\ bs[i + 1].depth = 0
        /\ (i < Len(bs) /\ bs[i].kind = "indented") =>
              \/ bs[i + 1].kind # "indented"
              \/ bs[i + 1].depth # bs[i].depth

BlockSeqs == UNION {[1..k -> Blocks] : k \in 0..MaxBlocks}

Documents ==
    {d \in [lead : 0..1, blocks : BlockSeqs] : WellFormedBlocks(d.blocks)}

\* the lines a block occupies in the text
Span(b) ==
    CASE b.kind = "fenced" -> b.n + 1 + (IF b.closed THEN 1 ELSE 0)
      [] OTHER -> b.n

\* the body of a code block: n lines, the first one empty when b.blank
BodyLines(b) ==
    [i \in 1..b.n |-> IF b.blank /\ i = 1 THEN <<>> ELSE CodeLine]

Position(first, last) ==
    [start |-> [line |-> first], end |-> [line |-> last]]

MdNode(type, children, value, lang, first, last) ==
    [type |-> type, children |-> children, value |-> value, lang |-> lang,
     position |-> Position(first, last)]

\* the word after the opening fence
BlockLang(b) == IF "lang" \in DOMAIN b THEN b.lang ELSE "js"

\* the node of one block whose first line is `line`
BlockNode(b, line) ==
    IF b.kind = "para"
    THEN MdNode("paragraph",
                <<MdNode("text", <<>>, <<"p">>, JSNull, line, line)>>,
                <<>>, JSNull, line, line + Span(b) - 1)
    ELSE MdNode("code", <<>>, JoinLines(BodyLines(b)),
                IF b.kind = "fenced" THEN BlockLang(b) ELSE JSNull,
                line, line + Span(b) - 1)

RECURSIVE RunEnd(_, _)
\* the last block of the block quote that holds block i
RunEnd(bs, i) ==
    IF i < Len(bs) /\ bs[i + 1].depth = 1 THEN RunEnd(bs, i + 1) ELSE i

RECURSIVE ParseRun(_, _, _, _)
\* the nodes of blocks i..j, all of one container, the first on `line`
ParseRun(bs, i, j, line) ==
    IF i > j THEN <<>>
    ELSE <<BlockNode(bs[i], line)>>
         \o ParseRun(bs, i + 1, j, line + Span(bs[i]) + 1)

RECURSIVE ParseFrom(_, _, _)
\* the top-level nodes of blocks i.., the first on `line`
ParseFrom(bs, i, line) ==
    IF i > Len(bs) THEN <<>>
    ELSE IF bs[i].depth = 0
    THEN <<BlockNode(bs[i], line)>>
         \o ParseFrom(bs, i + 1, line + Span(bs[i]) + 1)
    ELSE LET j == RunEnd(bs, i)
             kids == ParseRun(bs, i, j, line)
             last == kids[Len(kids)].position.end.line
         IN <<MdNode("blockquote", kids, <<>>, JSNull, line, last)>>
            \o ParseFrom(bs, j + 1, last + 2)

\* remark's parse
ParseMarkdown(d) ==
    LET kids == ParseFrom(d.blocks, 1, 1 + d.lead)
    IN MdNode("root", kids, <<>>, JSNull, 1,
              IF kids = <<>> THEN 1 ELSE kids[Len(kids)].position.end.line)

-----------------------------------------------------------------------------
(* extractFromMdast *)

\* a traversal that does not descend below the children of its argument
FlattenTree_Shallow(node) == <<node>> \o node.children

RECURSIVE FlattenTree(_), FlattenAll(_)
\* flattenTree(ast, (node, rec) => concat([node], rec(node.children || [])))
FlattenTree(node) == <<node>> \o FlattenAll(node.children)
FlattenAll(nodes) ==
    IF nodes = <<>> THEN <<>>
    ELSE FlattenTree(Head(nodes)) \o FlattenAll(Tail(nodes))

\* code.match(/(^|\n)/g).length: the empty match at the start, then every line
\* feed from index 1 on (after the empty match the search resumes at index 1)
CodeLineCount(code) == 1 + Cardinality({i \in 2..Len(code) : code[i] = LF})

PosLineCount(pos) == (pos.end.line - pos.start.line) + 1

\* a test that takes a node for fenced when its span is one line longer
IsFenced_ExceedsByOne(md) ==
    PosLineCount(md.position) = CodeLineCount(md.value) + 1

IsFenced(md) == CodeLineCount(md.value) # PosLineCount(md.position)

\* `${file && path.basename(file)} #${idx}`
MdName(file, idx) ==
    (IF file = JSNull THEN JSNull ELSE Basename(file)) \o " #" \o ToString(idx)

\* the record of the code node md, the idx-th of its tree
MdRecord(idx, md, file) ==
    [line |-> md.position.start.line + (IF IsFenced(md) THEN 1 ELSE 0),
     code |-> md.value, lang |-> md.lang, file |-> file, md |-> md,
     name |-> MdName(file, idx)]

CodeNodes(ast) == SelectSeq(FlattenTree(ast), LAMBDA node : node.type = "code")

ExtractFromMdast(ast, file) ==
    LET codes == CodeNodes(ast)
    IN [k \in 1..Len(codes) |-> MdRecord(k - 1, codes[k], file)]

\* extractFromMarkdown(text, opts)
ExtractFromMarkdown(d, file) == ExtractFromMdast(ParseMarkdown(d), file)

-----------------------------------------------------------------------------
(* extractFromDoc *)

MaxTags == 2
MaxTagLine == 1
MaxLine0 == 2
MaxDescBlocks == 2

\* the tags of a documentation object: {title, description, lineNumber}
Tags ==
    [title : {"example"}, description : {<<"e">>, <<"e", LF, "f">>},
     lineNumber : 0..MaxTagLine]
    \cup [title : {"description"}, description : {<<"t">>},
          lineNumber : 0..MaxTagLine]
    \cup [title : {"param"}, description : {<<"t">>}, lineNumber : {0}]

TagSeqs == UNION {[1..k -> Tags] : k \in 0..MaxTags}

\* the free text of a comment: paragraphs, indented and fenced code blocks
DescBlocks ==
    {b \in Blocks : b.depth = 0 /\ b.n = 1 /\ b.closed}

DescDocs ==
    {d \in [lead : {0},
            blocks : UNION {[1..k -> DescBlocks] : k \in 0..MaxDescBlocks}] :
        WellFormedBlocks(d.blocks)}

DocPaths == {<<[name |-> "fn1"]>>, <<[name |-> "Baz"], [name |-> "foo"]>>}

DocFiles == {<<"src", "a.js">>}

\* the documentation object of a symbol on line l of file f, with the
\* description d, the tags ts and the path p
DocObject(l, f, d, ts, p) ==
    [loc |-> [start |-> [line |-> l]],
     context |-> [file |-> f],
     description |-> ParseMarkdown(d),
     tags |-> ts,
     path |-> p]

RECURSIVE TagExamples_NoCorrection(_, _)
\* the loop without the correction of the line by one
TagExamples_NoCorrection(d, i) ==
    IF i > Len(d.tags) THEN <<>>
    ELSE (IF d.tags[i].title = "example"
          THEN <<[code |-> d.tags[i].description, lang |-> JSNull,
                  file |-> d.context.file,
                  line |-> d.tags[i].lineNumber + d.loc.start.line,
                  doc |-> d]>>
          ELSE <<>>)
         \o TagExamples_NoCorrection(d, i + 1)

RECURSIVE TagExamples(_, _)
\* the records the loop over d.tags yields from tag i on
TagExamples(d, i) ==
    IF i > Len(d.tags) THEN <<>>
    ELSE (IF d.tags[i].title = "example"
          THEN <<[code |-> d.tags[i].description, lang |-> JSNull,
                  file |-> d.context.file,
                  line |-> d.tags[i].lineNumber + d.loc.start.line + 1,
                  doc |-> d]>>
          ELSE <<>>)
         \o TagExamples(d, i + 1)

\* a descLine0 that no tag moves
DescLine0_StartLine(d, i) == d.loc.start.line

RECURSIVE DescLine0(_, _)
\* descLine0 after the loop has seen tags 1..i
DescLine0(d, i) ==
    IF i = 0 THEN d.loc.start.line
    ELSE DescLine0(d, i - 1)
         + (IF d.tags[i].title = "description" THEN d.tags[i].lineNumber ELSE 0)

\* _extractFromDocImpl
ExtractFromDocImpl(d) ==
    LET md == ExtractFromMdast(d.description, d.context.file)
    IN TagExamples(d, 1)
       \o [k \in 1..Len(md) |->
             [line |-> md[k].line + DescLine0(d, Len(d.tags)), doc |-> d,
              code |-> md[k].code, lang |-> md[k].lang, file |-> md[k].file,
              md |-> md[k].md, name |-> md[k].name]]

\* a key that tells the records of one symbol apart
GroupKey_ByLang(example) == example.lang

\* ({ fileName, docPath }) => `${fileName} ${docPath}`: no record has either
\* property
GroupKey(example) == "undefined undefined"

RECURSIVE GroupKeys(_)
\* the keys of group(seq, key), in the order of their first record
GroupKeys(seq) ==
    IF seq = <<>> THEN <<>>
    ELSE LET before == GroupKeys(SubSeq(seq, 1, Len(seq) - 1))
             key == GroupKey(seq[Len(seq)])
         IN IF \E i \in 1..Len(before) : before[i] = key
            THEN before ELSE Append(before, key)

\* values(group(seq, key)): the groups, each in the order of seq
Groups(seq) ==
    LET keys == GroupKeys(seq)
    IN [g \in 1..Len(keys) |->
          SelectSeq(seq, LAMBDA example : GroupKey(example) = keys[g])]

RECURSIVE JoinNames(_)
\* join(map(path, get('name')), '::')
JoinNames(path) ==
    IF path = <<>> THEN ""
    ELSE IF Len(path) = 1 THEN path[1].name
    ELSE path[1].name \o "::" \o JoinNames(Tail(path))

\* `${basename(file)} ${join(map(doc.path, get('name')), '::')} #${idx}`
DocName(example, idx) ==
    Basename(example.file) \o " " \o JoinNames(example.doc.path)
        \o " #" \o ToString(idx)

\* { ...example, name }
Named(example, idx) ==
    IF "md" \in DOMAIN example
    THEN [example EXCEPT !.name = DocName(example, idx)]
    ELSE [code |-> example.code, lang |-> example.lang, file |-> example.file,
          line |-> example.line, doc |-> example.doc,
          name |-> DocName(example, idx)]

\* map(enumerate) of the groups
EnumerateGroup(g) == [k \in 1..Len(g) |-> Named(g[k], k - 1)]

\* extractFromDoc
ExtractFromDoc(d) ==
    LET gs == Groups(ExtractFromDocImpl(d))
    IN Flatten([g \in 1..Len(gs) |-> EnumerateGroup(gs[g])])

DocInit ==
    /\ \E l \in 1..MaxLine0, f \in DocFiles, d \in DescDocs, ts \in TagSeqs,
          p \in DocPaths :
         doc = DocObject(l, f, d, ts, p)
    /\ docRecords = <<>>
    /\ docPc = "input"
    /\ DocRestIdle

\* one call of extractFromDoc
ExtractDoc ==
    /\ docPc = "input"
    /\ docRecords' = ExtractFromDoc(doc)
    /\ docPc' = "done"
    /\ UNCHANGED doc
    /\ UNCHANGED DocRest

DocNext == ExtractDoc

SpecDoc == DocInit /\ [][DocNext]_vars

-----------------------------------------------------------------------------
(* The specifications of extractFromMarkdown *)

MdFiles == {JSNull, <<"docs", "a.md">>}

MdInit ==
    /\ mdDoc \in Documents
    /\ mdFile \in MdFiles
    /\ mdAst = JSNull
    /\ mdRecords = <<>>
    /\ mdPc = "input"
    /\ MdRestIdle

\* one call of extractFromMarkdown
ExtractMarkdown ==
    /\ mdPc = "input"
    /\ mdAst' = ParseMarkdown(mdDoc)
    /\ mdRecords' = ExtractFromMdast(ParseMarkdown(mdDoc), mdFile)
    /\ mdPc' = "done"
    /\ UNCHANGED <<mdDoc, mdFile>>
    /\ UNCHANGED MdRest

MdNext == ExtractMarkdown

SpecMd == MdInit /\ [][MdNext]_vars

-----------------------------------------------------------------------------
(* generatingSourceMap *)

MaxGen == 4

TAB == "\t"

F1 == <<"docs", "a.md">>
F2 == <<"src", "a.js">>

\* the files on disk: F1 holds "ab\nb\n", F2 holds "x\n  a\n"
Disk ==
    (F1 :> <<"a", "b", LF, "b", LF>>) @@ (F2 :> <<"x", LF, " ", " ", "a", LF>>)

\* the examples found in them: a fenced block of two lines at the left margin
\* of F1, and a one-line example of a comment of F2, at column 2
AllExamples ==
    <<[name |-> "a.md #0", code |-> <<"a", "b", LF, "b">>, lang |-> "js",
       file |-> F1, line |-> 1],
      [name |-> "a.js fn1 #0", code |-> <<"a">>, lang |-> JSNull,
       file |-> F2, line |-> 2]>>

\* the sequences of examples a caller may pass: AllExamples after any filter
ExampleLists ==
    {SelectSeq(AllExamples, LAMBDA e : e.name \in keep) :
        keep \in SUBSET {AllExamples[i].name : i \in 1..Len(AllExamples)}}

\* uuidgen() draws one of these; no two draws of a call are equal
TokenSet == {"u1", "u2"}

\* the token of a text that looks like a placeholder and is none of the call's
ForeignToken == "u0"

\* `<<example:${id}>>`
Placeholder(id) == "<<example:" \o id \o ">>"

Draws(n) ==
    {d \in [1..n -> TokenSet] : \A i, j \in 1..n : d[i] = d[j] => i = j}

\* the place of a template where the renderer pastes the code of example i
SlotSym(i) == "{" \o ToString(i) \o "}"

Chars == {"x", " ", TAB, LF}

TemplateSyms(n) ==
    Chars \cup {SlotSym(i) : i \in 1..n} \cup {Placeholder(ForeignToken)}

\* the renderers: any text around the code of any of the n examples, each any
\* number of times
Templates(n) == UNION {[1..k -> TemplateSyms(n)] : k \in 0..MaxGen}

\* renderer(examples2)
Render(template, examples2) ==
    Flatten([j \in 1..Len(template) |->
                IF \E i \in 1..Len(examples2) : template[j] = SlotSym(i)
                THEN examples2[CHOOSE i \in 1..Len(examples2) :
                                   template[j] = SlotSym(i)].code
                ELSE <<template[j]>>])

\* map((example) => [uuidgen(), example]), obj
ExampleCache(exs, draw) ==
    [i \in 1..Len(exs) |-> [id |-> draw[i], example |-> exs[i]]]

\* uuid in exampleCache
InCache(cache, uuid) == \E i \in 1..Len(cache) : cache[i].id = uuid

\* a lookup by the position the example would have in the unfiltered list
Cached_ByPosition(cache, uuid) ==
    AllExamples[CHOOSE i \in 1..Len(cache) : cache[i].id = uuid]

\* exampleCache[uuid]
Cached(cache, uuid) ==
    cache[CHOOSE i \in 1..Len(cache) : cache[i].id = uuid].example

\* the examples with the code replaced by the placeholder
Examples2(cache) ==
    [i \in 1..Len(cache) |->
        [cache[i].example EXCEPT !.code = <<Placeholder(cache[i].id)>>]]

\* a slice that leaves out the last character
Slice_Short(t, a, b) == SubSeq(t, a + 1, b - 1)

\* gen.slice(a, b), offsets from 0
Slice(t, a, b) == SubSeq(t, a + 1, b)

IsWs(c) == c \in {" ", TAB}

IsPlaceholder(c) == \E id \in TokenSet \cup {ForeignToken} : c = Placeholder(id)

\* a capture that reads every token as the first of TokenSet
TokenOf_First(c) == "u1"

TokenOf(c) == CHOOSE id \in TokenSet \cup {ForeignToken} : c = Placeholder(id)

\* an indent that stops at the first tab
RECURSIVE WsEnd_SpacesOnly(_, _)
WsEnd_SpacesOnly(t, j) ==
    IF j <= Len(t) /\ t[j] = " " THEN WsEnd_SpacesOnly(t, j + 1) ELSE j

RECURSIVE WsEnd(_, _)
\* [ \t]*, greedy: the first position from j on (from 1) that holds no blank
WsEnd(t, j) == IF j <= Len(t) /\ IsWs(t[j]) THEN WsEnd(t, j + 1) ELSE j

\* the null re.exec returns when nothing matches
NoMatch == [index |-> -1, match |-> <<>>, outIndent |-> <<>>, uuid |-> JSNull]

RECURSIVE Exec(_, _)
\* re.exec(gen) with re.lastIndex = lastIndex: the leftmost match of
\* /([ \t]*)<<example:(UUID)>>/mg, or null
Exec(t, lastIndex) ==
    IF lastIndex >= Len(t) THEN NoMatch
    ELSE LET j == WsEnd(t, lastIndex + 1)
         IN IF j <= Len(t) /\ IsPlaceholder(t[j])
            THEN [index |-> lastIndex,
                  match |-> SubSeq(t, lastIndex + 1, j),
                  outIndent |-> SubSeq(t, lastIndex + 1, j - 1),
                  uuid |-> TokenOf(t[j])]
            ELSE Exec(t, lastIndex + 1)

\* a match without the g flag: the first line feed only
MatchLF_FirstOnly(t) ==
    IF \E i \in 1..Len(t) : t[i] = LF THEN <<LF>> ELSE JSNull

\* String.prototype.match(/\n/g): the matches, or null when there is none
MatchLF(t) ==
    LET hits == SelectSeq(t, LAMBDA c : c = LF)
    IN IF hits = <<>> THEN JSNull ELSE hits

\* ferrum's size() is the trait Size, implemented for strings, arrays, maps,
\* sets and objects and for neither null nor undefined: for those it throws
SizeThrows(x) == x = JSNull \/ x = JSUndefined

Size(x) == Len(x)

\* lines[i], i from 0: undefined beyond the last line
At(lines, i) == IF i + 1 \in 1..Len(lines) THEN lines[i + 1] ELSE JSUndefined

\* the column of a code line that is not a suffix of the source line
OriginalColumn_Zero(sourceLine, line) == 0

\* size(sourceLine) - size(line)
OriginalColumn(sourceLine, line) == Size(sourceLine) - Size(line)

\* a generated line counted from 0
Mapping_LineFromZero(file, column, inLine, outLine, outColumn) ==
    [source |-> file,
     original |-> [column |-> column, line |-> inLine],
     generated |-> [line |-> outLine, column |-> outColumn]]

\* the argument of sourceMap.addMapping
Mapping(file, column, inLine, outLine, outColumn) ==
    [source |-> file,
     original |-> [column |-> column, line |-> inLine],
     generated |-> [line |-> outLine + 1, column |-> outColumn]]

\* SourceMapGenerator.addMapping validates its argument and throws on a line
\* below 1 or a column below 0
ValidMapping(m) ==
    /\ m.generated.line > 0
    /\ m.generated.column >= 0
    /\ m.original.line > 0
    /\ m.original.column >= 0

\* a disk every file of which can be read
ReadFails_Never(file) == FALSE

\* readFile(file) rejects
ReadFails(file) == file \in missing

\* src/index.js:546-558: the argument of addMapping for the code line `line`,
\* line inLine of its file, of which sourceLines are the lines
LineMapping(sourceLines, file, line, inLine, outLine, outIndent) ==
    LET sourceLine == At(sourceLines, inLine - 1)
    IN Mapping(file,
               IF SizeThrows(sourceLine) THEN 0
               ELSE OriginalColumn(sourceLine, line),
               inLine, outLine, Size(outIndent))

\* a loop that stops after the first line of the code
MoreLines_FirstOnly(ex, n) == FALSE

\* src/index.js:539: the loop over code.split('\n') has a line after line n
\* of the file
MoreLines(ex, n) == n - ex.line + 1 < Len(SplitLines(ex.code))

GsmInit ==
    /\ examples \in ExampleLists
    /\ renderer \in Templates(Len(examples))
    /\ missing \in SUBSET {F1, F2}
    /\ exampleCache = <<>>
    /\ gen = <<>>
    /\ lastMatchEnd = 0
    /\ outLineNo = 0
    /\ match = NoMatch
    /\ inLineNo = 0
    /\ buf = <<>>
    /\ sourceMap = <<>>
    /\ sites = <<>>
    /\ sourceCache = <<>>
    /\ reads = <<>>
    /\ pc = "start"
    /\ result = JSNull
    /\ GsmRestIdle

\* src/index.js:480-518: the tokens are drawn, the renderer is run on the
\* placeholders
RunRenderer ==
    /\ pc = "start"
    /\ \E draw \in Draws(Len(examples)) :
         /\ exampleCache' = ExampleCache(examples, draw)
         /\ gen' = Render(renderer, Examples2(ExampleCache(examples, draw)))
    /\ pc' = "post"
    /\ UNCHANGED <<examples, renderer, missing, lastMatchEnd, outLineNo, match,
                   inLineNo, buf, sourceMap, sites, sourceCache, reads, result>>
    /\ UNCHANGED GsmRest

\* the example of the match the loop is at, and the code line it is at
MatchExample == Cached(exampleCache, match.uuid)
MatchLine == SplitLines(MatchExample.code)[inLineNo - MatchExample.line + 1]

\* src/index.js:519-538: the loop over the matches comes to the next match:
\* the text before it is written; a match whose token is not in the cache is
\* written as it is, for another the loop over its code lines is entered
ProcessMatch ==
    /\ pc = "post"
    /\ Exec(gen, lastMatchEnd) # NoMatch
    /\ LET m == Exec(gen, lastMatchEnd)
           previousText == Slice(gen, lastMatchEnd, m.index)
           newlines == MatchLF(previousText)
       IN IF SizeThrows(newlines)
          THEN /\ buf' = Append(buf, previousText)
               /\ pc' = "failed"
               /\ UNCHANGED <<lastMatchEnd, outLineNo, match, inLineNo>>
          ELSE /\ lastMatchEnd' = m.index + Size(m.match)
               /\ outLineNo' = outLineNo + Size(newlines)
               /\ IF ~InCache(exampleCache, m.uuid)
                  THEN /\ buf' = buf \o <<previousText, m.match>>
                       /\ pc' = "post"
                       /\ UNCHANGED <<match, inLineNo>>
                  ELSE /\ buf' = Append(buf, previousText)
                       /\ match' = m
                       /\ inLineNo' = Cached(exampleCache, m.uuid).line
                       /\ pc' = "line"
    /\ UNCHANGED <<examples, renderer, missing, exampleCache, gen, sourceMap,
                   sites, sourceCache, reads, result>>
    /\ UNCHANGED GsmRest

\* src/index.js:539-552 and 502-505: a code line is written behind the
\* indentation of the match; loadSourceFile is called for its mapping and
\* awaited: it returns the lines the cache has, or awaits readFile first
EmitLine ==
    /\ pc = "line"
    /\ buf' = buf \o <<match.outIndent, MatchLine, <<LF>>>>
    /\ reads' = IF MatchExample.file \in DOMAIN sourceCache THEN reads
                ELSE Append(reads, MatchExample.file)
    /\ pc' = IF MatchExample.file \in DOMAIN sourceCache THEN "await"
             ELSE "read"
    /\ UNCHANGED <<examples, renderer, missing, exampleCache, gen, lastMatchEnd,
                   outLineNo, match, inLineNo, sourceMap, sites, sourceCache,
                   result>>
    /\ UNCHANGED GsmRest

\* src/index.js:504: readFile settles in loadSourceFile: the read has
\* failed, which fails the call, or the lines of the file are stored in the
\* cache and loadSourceFile returns them to the await of the loop
StoreSourceFile ==
    /\ pc = "read"
    /\ IF ReadFails(MatchExample.file)
       THEN /\ pc' = "failed"
            /\ UNCHANGED sourceCache
       ELSE /\ sourceCache' = (MatchExample.file :>
                                  SplitLines(Disk[MatchExample.file]))
                                 @@ sourceCache
            /\ pc' = "await"
    /\ UNCHANGED <<examples, renderer, missing, exampleCache, gen, lastMatchEnd,
                   outLineNo, match, inLineNo, buf, sourceMap, sites, reads,
                   result>>
    /\ UNCHANGED GsmRest

\* src/index.js:545-563: loadSourceFile has settled with the lines of the
\* file: the mapping of the code line is added, the line counters go on,
\* and the loop goes to the next code line or to the next match
AddMapping ==
    /\ pc = "await"
    /\ LET ex == MatchExample
           mapping == LineMapping(sourceCache[ex.file], ex.file, MatchLine,
                                  inLineNo, outLineNo, match.outIndent)
       IN IF \/ SizeThrows(At(sourceCache[ex.file], inLineNo - 1))
             \/ ~ValidMapping(mapping)
          THEN /\ pc' = "failed"
               /\ UNCHANGED <<outLineNo, inLineNo, sourceMap, sites>>
          ELSE /\ sourceMap' = Append(sourceMap, mapping)
               /\ sites' = Append(sites,
                      [uuid |-> match.uuid,
                       k |-> inLineNo - ex.line,
                       at |-> match.index + Size(match.outIndent),
                       out |-> Len(Flatten(buf)) - Size(match.outIndent)
                                  - Size(MatchLine) - 1])
               /\ outLineNo' = outLineNo + 1
               /\ inLineNo' = inLineNo + 1
               /\ pc' = IF MoreLines(ex, inLineNo) THEN "line" ELSE "post"
    /\ UNCHANGED <<examples, renderer, missing, exampleCache, gen, lastMatchEnd,
                   match, buf, sourceCache, reads, result>>
    /\ UNCHANGED GsmRest

\* src/index.js:566-569: the rest of the text, and the result
Finish ==
    /\ pc = "post"
    /\ Exec(gen, lastMatchEnd) = NoMatch
    /\ buf' = Append(buf, Slice(gen, lastMatchEnd, Len(gen)))
    /\ result' = [text |-> Flatten(buf'), sourceMap |-> sourceMap]
    /\ pc' = "done"
    /\ UNCHANGED <<examples, renderer, missing, exampleCache, gen, lastMatchEnd,
                   outLineNo, match, inLineNo, sourceMap, sites, sourceCache,
                   reads>>
    /\ UNCHANGED GsmRest

GsmNext ==
    \/ RunRenderer
    \/ ProcessMatch
    \/ EmitLine
    \/ StoreSourceFile
    \/ AddMapping
    \/ Finish

SpecGsm == GsmInit /\ [][GsmNext]_vars

-----------------------------------------------------------------------------
(* loadSourceFile: the reads of the calls of generatingSourceMap that are   *)
(* in flight at the same time.  Each call has its own sourceCache           *)
(* (src/index.js:501); a call is given by the files its code lines need,    *)
(* in the order the loop at src/index.js:539 asks for them.                 *)

MaxNeeds == 3

\* a file that is not on the disk
F3 == <<"src", "gone.js">>

\* the calls in flight
CallIds == {"A", "B"}

\* the files the code lines of a call are looked up in, in order
Needs == UNION {[1..n -> {F1, F2, F3}] : n \in 0..MaxNeeds}

\* one cache for all calls: that of the first call
CacheOf_Shared(cs, c) == cs["A"].sourceCache

\* the sourceCache of call c
CacheOf(cs, c) == cs[c].sourceCache

LoadInit ==
    /\ calls \in {[c \in CallIds |->
                     [needs |-> n[c], k |-> 0, sourceCache |-> <<>>,
                      reads |-> <<>>, pc |-> "run"]] : n \in [CallIds -> Needs]}
    /\ LoadRestIdle

\* src/index.js:502-504: loadSourceFile(file) up to the await of readFile;
\* src/index.js:507 when the file is in the cache
LoadSourceFile(c) ==
    /\ calls[c].pc = "run"
    /\ calls[c].k < Len(calls[c].needs)
    /\ LET file == calls[c].needs[calls[c].k + 1]
       IN IF file \in DOMAIN CacheOf(calls, c)
          THEN calls' = [calls EXCEPT ![c].k = @ + 1]
          ELSE calls' = [calls EXCEPT ![c].reads = Append(@, file),
                                      ![c].pc = "reading"]
    /\ UNCHANGED LoadRest

\* src/index.js:504-507: readFile settles; the lines are put in the cache and
\* returned, or the call rejects
ReadFileSettles(c) ==
    /\ calls[c].pc = "reading"
    /\ LET file == calls[c].needs[calls[c].k + 1]
       IN IF file \notin DOMAIN Disk
          THEN calls' = [calls EXCEPT ![c].pc = "failed"]
          ELSE calls' = [calls EXCEPT
                            ![c].sourceCache =
                                (file :> SplitLines(Disk[file])) @@ @,
                            ![c].k = @ + 1,
                            ![c].pc = "run"]
    /\ UNCHANGED LoadRest

\* src/index.js:569: the call returns
CallReturns(c) ==
    /\ calls[c].pc = "run"
    /\ calls[c].k = Len(calls[c].needs)
    /\ calls' = [calls EXCEPT ![c].pc = "done"]
    /\ UNCHANGED LoadRest

LoadNext ==
    \E c \in CallIds : LoadSourceFile(c) \/ ReadFileSettles(c) \/ CallReturns(c)

SpecLoad == LoadInit /\ [][LoadNext]_vars

-----------------------------------------------------------------------------
(* generateTests *)

MaxSources == 1
MaxMdBlocks == 1

\* 'notest'
Notest == <<"n", "o", "t", "e", "s", "t">>

\* the language tags of the fenced blocks of a project, as texts: js, notest
\* and js,notest
Langs == {<<"j", "s">>, Notest, <<"j", "s", ",">> \o Notest}

\* lang.match('notest'): 'notest' is found somewhere in the tag
MatchNotest(lang) ==
    \E i \in 1..Len(lang) :
        /\ i + Len(Notest) - 1 <= Len(lang)
        /\ SubSeq(lang, i, i + Len(Notest) - 1) = Notest

\* isdef(x): x is neither undefined nor null
IsDef(x) == x # JSNull /\ x # JSUndefined

\* the fenced blocks of a project's texts
GtBlocks ==
    [kind : {"fenced"}, n : {1}, closed : {TRUE}, blank : {FALSE}, depth : {0},
     lang : Langs]

\* a text of up to k fenced blocks
GtTexts(k) == [lead : {0}, blocks : UNION {[1..n -> GtBlocks] : n \in 0..k}]

\* source files of one name in two directories
GtDocFiles == {<<"src", "a.js">>, <<"lib", "a.js">>}

\* markdown files of one name in two directories
GtMdFiles == {<<"a", "README.md">>, <<"b", "README.md">>}

\* the documentation objects of documentation.js: the symbol fn1 of a file,
\* with a description of at most one code block and at most one @example tag
GtDocs ==
    {[loc |-> [start |-> [line |-> 1]],
      context |-> [file |-> f],
      description |-> ParseMarkdown(d),
      tags |-> ts,
      path |-> p] :
        f \in GtDocFiles, d \in GtTexts(1),
        ts \in {<<>>, <<[title |-> "example", description |-> <<"e">>,
                         lineNumber |-> 1]>>},
        p \in {<<[name |-> "fn1"]>>}}

\* what buildDoc(paths) resolves to
Sources == UNION {[1..k -> GtDocs] : k \in 0..MaxSources}

\* the files _findFs lists for the paths of markdownSource, with the text of
\* each: a file is listed once for every path that leads to it, and every
\* time with the text it has on disk
MarkdownSources ==
    {fs \in UNION {[1..k -> [file : GtMdFiles, md : GtTexts(MaxMdBlocks)]] :
                      k \in 0..Cardinality(GtMdFiles)} :
        \A i, j \in 1..Len(fs) : fs[i].file = fs[j].file => fs[i].md = fs[j].md}

\* findDocExamples: map(extractFromDoc), flat
FindDocExamplesOf(docs) ==
    Flatten([i \in 1..Len(docs) |-> ExtractFromDoc(docs[i])])

\* findMarkdownExamples: extractFromMarkdown(md, { file }) of every file, flat
FindMarkdownExamplesOf(files) ==
    Flatten([i \in 1..Len(files) |->
                ExtractFromMarkdown(files[i].md, files[i].file)])

\* a filter that drops nothing
Reject_Nothing(exs) == exs

\* reject(({ lang }) => isdef(lang) && lang.match('notest'))
Reject(exs) ==
    SelectSeq(exs, LAMBDA e : ~(IsDef(e.lang) /\ MatchNotest(e.lang)))

GtInit ==
    /\ source \in Sources
    /\ markdownSource \in MarkdownSources
    /\ docExamples = <<>>
    /\ mdExamples = <<>>
    /\ batch = <<>>
    /\ gtPc = "start"
    /\ GtRestIdle

\* src/index.js:657: await findDocExamples(source)
FindDocExamples ==
    /\ gtPc = "start"
    /\ docExamples' = FindDocExamplesOf(source)
    /\ gtPc' = "docs"
    /\ UNCHANGED <<source, markdownSource, mdExamples, batch>>
    /\ UNCHANGED GtRest

\* src/index.js:660: await findMarkdownExamples(markdownSource)
FindMarkdownExamples ==
    /\ gtPc = "docs"
    /\ mdExamples' = FindMarkdownExamplesOf(markdownSource)
    /\ gtPc' = "markdown"
    /\ UNCHANGED <<source, markdownSource, docExamples, batch>>
    /\ UNCHANGED GtRest

\* src/index.js:653-702: concat, reject, and the renderer is given the rest
RenderBatch ==
    /\ gtPc = "markdown"
    /\ batch' = Reject(docExamples \o mdExamples)
    /\ gtPc' = "rendered"
    /\ UNCHANGED <<source, markdownSource, docExamples, mdExamples>>
    /\ UNCHANGED GtRest

GtNext == FindDocExamples \/ FindMarkdownExamples \/ RenderBatch

SpecGt == GtInit /\ [][GtNext]_vars

-----------------------------------------------------------------------------
(* cliGenerate (cli.js).  A path is the sequence of its segments, relative  *)
(* to the working directory.                                                *)

MaxText == 2

\* the texts generateTests may resolve to
TestTexts == UNION {[1..n -> {"x", LF}] : n \in 0..MaxText}

\* the values of -o and of -m: not given, or a path
Outs == {JSUndefined, <<"out.js">>, <<"t", "out.js">>}
Sourcemaps == {JSUndefined, <<"t", "out.js.map">>, <<"maps", "o.map">>}

\* the source map object generateTests resolves to
SourcemapData == [mappings |-> "AAAA"]

\* path.dirname
Dirname(p) == SubSeq(p, 1, Len(p) - 1)

RECURSIVE Relative(_, _)
\* path.relative(from, to)
Relative(from, to) ==
    IF from # <<>> /\ to # <<>> /\ Head(from) = Head(to)
    THEN Relative(Tail(from), Tail(to))
    ELSE [i \in 1..Len(from) |-> ".."] \o to

RECURSIVE JoinPath(_)
\* a path as a string
JoinPath(p) ==
    IF p = <<>> THEN ""
    ELSE IF Len(p) = 1 THEN p[1]
    ELSE p[1] \o "/" \o JoinPath(Tail(p))

\* no default for the place of the source map
SourcemapOr_None(sourcemap, out) == sourcemap

\* sourcemap = isdef(out) ? `${out}.map` : out, when sourcemap is undefined
SourcemapOr(sourcemap, out) ==
    IF sourcemap # JSUndefined THEN sourcemap
    ELSE IF IsDef(out)
    THEN [out EXCEPT ![Len(out)] = @ \o ".map"]
    ELSE out

\* `\n//# sourceMappingURL=${relp}\n`
Trailer(relp) == <<LF, "//# sourceMappingURL=" \o JoinPath(relp), LF>>

\* JSON.stringify(sourcemapData), with _file set
MapFile(out, sourcemap) ==
    [mappings |-> SourcemapData.mappings,
     file |-> JoinPath(Relative(Dirname(sourcemap), out))]

\* cli.js:510-537: the files cliGenerate writes, each with its content: the
\* test text, with the trailer if there is a source map, and the source map
Forks(out, sourcemap, data) ==
    (IF IsDef(sourcemap)
     THEN sourcemap :> MapFile(out, sourcemap) ELSE <<>>)
    @@ (IF IsDef(out)
        THEN out :> (IF IsDef(sourcemap)
                     THEN data \o Trailer(Relative(Dirname(out), sourcemap))
                     ELSE data)
        ELSE <<>>)

\* Promise.all(forks) resolves as soon as one write has settled
Fulfilled_Any(ws) == \E f \in DOMAIN ws : ws[f] = "ok"

\* Promise.all(forks) resolves: every write has settled and none failed
Fulfilled(ws) == \A f \in DOMAIN ws : ws[f] = "ok"

\* Promise.all(forks) rejects: a write has failed
Rejected(ws) == \E f \in DOMAIN ws : ws[f] = "failed"

CliGenInit ==
    /\ cliParams \in [out : Outs, sourcemap : Sourcemaps]
    /\ testData \in TestTexts
    /\ cliPc = "generate"
    /\ stdout = <<>>
    /\ writeForks = <<>>
    /\ written = <<>>
    /\ CliGenRestIdle

\* cli.js:510-539: generateTests settles; the texts are put together, the text
\* goes to stdout or its write is issued, the write of the source map is
\* issued, and Promise.all of the writes is awaited.  path.dirname(out)
\* throws when only the source map was given a place.
GenerateTestsSettles ==
    /\ cliPc = "generate"
    /\ \E ok \in BOOLEAN :
         LET out == cliParams.out
             sourcemap == SourcemapOr(cliParams.sourcemap, out)
         IN IF ~ok \/ (IsDef(sourcemap) /\ ~IsDef(out))
            THEN /\ cliPc' = "rejected"
                 /\ UNCHANGED <<stdout, writeForks>>
            ELSE /\ cliPc' = "writing"
                 /\ stdout' = IF IsDef(out) THEN stdout ELSE stdout \o testData
                 /\ writeForks' = [f \in DOMAIN Forks(out, sourcemap, testData)
                                 |-> "pending"]
    /\ UNCHANGED <<cliParams, testData, written>>
    /\ UNCHANGED CliGenRest

\* cli.js:526, 533: one writeFile call settles, in its own callback; after a
\* failure of the other one it is carried out all the same
WriteFileSettles(f) ==
    /\ cliPc \in {"writing", "rejected"}
    /\ writeForks[f] = "pending"
    /\ \E ok \in BOOLEAN :
         IF ok
         THEN /\ writeForks' = [writeForks EXCEPT ![f] = "ok"]
              /\ written' =
                     (f :> Forks(cliParams.out,
                                 SourcemapOr(cliParams.sourcemap, cliParams.out),
                                 testData)[f]) @@ written
         ELSE /\ writeForks' = [writeForks EXCEPT ![f] = "failed"]
              /\ UNCHANGED written
    /\ UNCHANGED <<cliParams, testData, cliPc, stdout>>
    /\ UNCHANGED CliGenRest

\* cli.js:539-541: Promise.all of the writes resolves and cliGenerate
\* returns 0
WritesSettle ==
    /\ cliPc = "writing"
    /\ Fulfilled(writeForks)
    /\ cliPc' = "done"
    /\ UNCHANGED <<cliParams, testData, stdout, writeForks, written>>
    /\ UNCHANGED CliGenRest

\* cli.js:539: a write has failed, Promise.all rejects and so does
\* cliGenerate
WriteFails ==
    /\ cliPc = "writing"
    /\ Rejected(writeForks)
    /\ cliPc' = "rejected"
    /\ UNCHANGED <<cliParams, testData, stdout, writeForks, written>>
    /\ UNCHANGED CliGenRest

CliGenNext ==
    \/ GenerateTestsSettles
    \/ \E f \in DOMAIN writeForks : WriteFileSettles(f)
    \/ WritesSettle
    \/ WriteFails

SpecCliGen == CliGenInit /\ [][CliGenNext]_vars

-----------------------------------------------------------------------------
(* findPkg (cli.js).  A directory is the sequence of its segments below the *)
(* root of the file system, the root is << >>.                              *)

MaxDepth == 3

\* the names of the directories, by depth
DirNames == [i \in 1..MaxDepth |-> "d" \o ToString(i)]

\* the directories findPkg can be started in
StartDirs == {SubSeq(DirNames, 1, n) : n \in 0..MaxDepth}

\* what a directory holds under the name package.json: nothing, a file with
\* a name in it, a file that is not JSON, a file of the JSON text null, a
\* file of other JSON without a name
PkgKinds == {"none", "valid", "bad", "null", "noname"}

PkgName == "ferrum.doctest"

\* the directories from dir up to the root
Ancestors(dir) == {SubSeq(dir, 1, n) : n \in 0..Len(dir)}

\* a test that takes every directory for the root
IsRoot_Always(p) == TRUE

\* isRoot(p): path.dirname(p) === p
IsRoot(p) == p = <<>>

\* the error of stat on a path that does not exist
StatError == [code |-> "ENOENT", name |-> "Error", file |-> JSUndefined]

\* cli.js:459-466: the error of reading and parsing a package.json of the
\* given kind, with __findPkgJsonFile set by the catch clause: readFile
\* fails on a file that is gone, JSON.parse fails on a file that is not
\* JSON, the destructuring fails on null, the assertion fails without a name
PkgError(kind) ==
    CASE kind = "none" ->
           [code |-> "ENOENT", name |-> "Error", file |-> "package.json"]
      [] kind = "bad" ->
           [code |-> JSUndefined, name |-> "SyntaxError",
            file |-> "package.json"]
      [] kind = "null" ->
           [code |-> JSUndefined, name |-> "TypeError",
            file |-> "package.json"]
      [] kind = "noname" ->
           [code |-> "ERR_ASSERTION", name |-> "AssertionError",
            file |-> "package.json"]

\* the errors findPkg can fail with
PkgErrors == {StatError} \cup {PkgError(kind) : kind \in PkgKinds \ {"valid"}}

PkgInit ==
    /\ \E start \in StartDirs :
         /\ pkgFs \in [Ancestors(start) -> PkgKinds]
         /\ pkgCur = start
    /\ tryParents \in BOOLEAN
    /\ examined = <<>>
    /\ pkgPc = "statDir"
    /\ pkgResult = <<>>
    /\ PkgRestIdle

\* cli.js:472-483: the inner call on package.json has thrown err: on ENOENT
\* the parent is tried when tryParents is set and the directory is not the
\* root, and its stat is awaited; every other error is thrown on
Rethrow(err) ==
    IF tryParents /\ err.code = "ENOENT" /\ ~IsRoot(pkgCur)
    THEN /\ pkgCur' = Dirname(pkgCur)
         /\ pkgPc' = "statDir"
         /\ UNCHANGED pkgResult
    ELSE /\ pkgResult' = err
         /\ pkgPc' = "failed"
         /\ UNCHANGED pkgCur

\* cli.js:458, 470-473: stat of the directory settles, it is not a file:
\* findPkg calls itself on its package.json and awaits the stat of that
StatDirSettles ==
    /\ pkgPc = "statDir"
    /\ examined' = Append(examined, pkgCur)
    /\ pkgPc' = "statFile"
    /\ UNCHANGED <<pkgFs, tryParents, pkgCur, pkgResult>>
    /\ UNCHANGED PkgRest

\* cli.js:458-460: stat of package.json settles: it fails when there is no
\* such file, and readFile is awaited when there is
StatFileSettles ==
    /\ pkgPc = "statFile"
    /\ IF pkgFs[pkgCur] = "none"
       THEN Rethrow(StatError)
       ELSE /\ pkgPc' = "readFile"
            /\ UNCHANGED <<pkgCur, pkgResult>>
    /\ UNCHANGED <<pkgFs, tryParents, examined>>
    /\ UNCHANGED PkgRest

\* another process removes the package.json between its stat and its read
Unlink ==
    /\ pkgPc = "readFile"
    /\ pkgFs[pkgCur] # "none"
    /\ pkgFs' = [pkgFs EXCEPT ![pkgCur] = "none"]
    /\ UNCHANGED <<tryParents, pkgCur, examined, pkgPc, pkgResult>>
    /\ UNCHANGED PkgRest

\* cli.js:460-467: readFile of package.json settles: a file that parses and
\* holds a name is returned with its directory, every failure is thrown
\* with the file recorded in it
ReadPkgSettles ==
    /\ pkgPc = "readFile"
    /\ IF pkgFs[pkgCur] = "valid"
       THEN /\ pkgResult' = <<pkgCur, PkgName>>
            /\ pkgPc' = "done"
            /\ UNCHANGED pkgCur
       ELSE Rethrow(PkgError(pkgFs[pkgCur]))
    /\ UNCHANGED <<pkgFs, tryParents, examined>>
    /\ UNCHANGED PkgRest

PkgNext == StatDirSettles \/ StatFileSettles \/ Unlink \/ ReadPkgSettles

\* every pending call of findPkg is run in the end
SpecPkg == PkgInit /\ [][PkgNext]_vars /\ WF_vars(PkgNext)

-----------------------------------------------------------------------------
(* The exec command (cli.js): parseArgs with the handler of declareExecCmd, *)
(* then cliExecute under init.  A step is the code run between two awaits.  *)

MaxArgs == 2

\* the command name yargs parsed (`_`): none, exec or generate
Commands == {JSUndefined, "exec", "generate"}

\* what y.recommendCommands() says of a word near the name of a command
MsgDidYouMean == "Did you mean exec?"

\* what yargs itself objects to under y.strict(): an unknown option, an
\* unknown command, one close to the name of a command, an option without
\* its value.  The --get-yargs-completions option of the completion script
\* is among the unknown ones: 'strip-dashed' removes the key yargs would
\* answer to.
YargsErrors ==
    {"Unknown argument: v", "Unknown argument: foo", MsgDidYouMean,
     "Unknown argument: getYargsCompletions",
     "Not enough arguments following: p"}

\* what yargs answers by itself, on stdout, ending the process with 0:
\* --help, --version and the completion command of y.completion()
YargsAnswers == {"help", "version", "completion"}

\* what y.parse(argv) makes of the command line before any handler runs:
\* nothing of its own ("ok"), one of its answers, or one of its errors
Parsed == {"ok"} \cup YargsAnswers \cup YargsErrors

\* the values of --source and of --markdown-source
SourceLists == {<<>>, <<"src">>}

\* the words of a command line
Words == {"echo", "Hello"}

ArgLists == UNION {[1..n -> Words] : n \in 0..MaxArgs}

\* the value of -c: not given, the empty string, shell code
ShellCodes == {JSUndefined, "", "npx mocha"}

\* the value of -p: not given, a path
Packages == {JSUndefined, "pkg/package.json"}

\* what y.showHelp() writes for the program and for exec: the usage line
\* stands for the whole help text
MsgHelp == "$0 <command>"
MsgHelpExec == "$0 exec [-t TEMPLATE] [-s JS_SOURCE]... [--mdsrc MD_SOURCE]... [-c SHELL_CODE|COMMAND... [-- COMMAND...]]"
MsgHelpGenerate == "$0 generate [-t TEMPLATE] [-s JS_SOURCE]... [--mdsrc MD_SOURCE]... [-o FILE] [-m MAP_FILE]"
\* (the message of the code has -- between backticks)
MsgUnparsed == "Parameters behind -- are not supported"
MsgNoSources == "Please specify at least --source or --markdown-source."
MsgNoCommandName == "Please specify a command!"
MsgNoCommand == "Please specify a command either in the arguments or with -c."
MsgFindPkg == "[ERROR] Encountered exception while trying to find package.json: "
MsgParsePkg == "[ERROR] Encountered exception while trying to parse package.json at"
MsgUncaught == "[FATAL] Uncaught exception: "

\* the exit codes of a child that was not ended by a signal
ChildCodes == {0, 1}

\* a temporary directory that does not exist
NoTmp ==
    [exists |-> FALSE, nodeModules |-> FALSE, link |-> FALSE,
     testFile |-> FALSE, map |-> FALSE, hook |-> FALSE]

\* no child process: spawn was not called.  child.cmd is what spawn was
\* called with, child.running whether a process runs for it; child.ended is
\* "no" while the child has not ended, "code" when it exited with child.code,
\* "signal" when a signal ended it (the 'exit' event then carries the code
\* null), "error" when no process could be started ('error' event)
NoChild ==
    [shell |-> FALSE, cmd |-> <<>>, running |-> FALSE, ended |-> "no", code |-> 0]

\* empty(seq)
Empty(seq) == Len(seq) = 0

\* a test that lets both forms through
Xor_Or(a, b) == a \/ b

\* xor(a, b) of ferrum
Xor(a, b) == (a /\ ~b) \/ (~a /\ b)

\* params.argsCommand = [...parsed, ...unparsed]
ArgsCommand(ps) == ps.argsCommand \o ps.unparsed

\* the help y.showHelp() writes: that of the command yargs has found
Help(ps) ==
    CASE ps.name = "exec" -> MsgHelpExec
      [] ps.name = "generate" -> MsgHelpGenerate
      [] OTHER -> MsgHelp

\* what yargs writes to stdout for one of its answers: the help, and a text
\* that stands for the version of package.json and for the completion script
Answer(ps) ==
    CASE ps.parsed = "help" -> Help(ps)
      [] ps.parsed = "version" -> "version"
      [] ps.parsed = "completion" -> "completion script"

\* the 'exit' listeners run (mkTmpDir's removes the directory) and the
\* process is gone
Ended ==
    /\ tmp' = IF tmp.hook THEN NoTmp ELSE tmp
    /\ execPc' = "exited"

\* exit(code): the process ends with the code, at once
Exit(code) ==
    /\ exitCode' = code
    /\ Ended

\* assertCliParams(y, false, msg): the help, the message, exit(1)
AssertCliParamsFails(help, msg) ==
    /\ stderr' = stderr \o <<help, msg>>
    /\ Exit(1)

\* onUncaught: an await of cliExecute rejected, or an 'error' event nobody
\* listens to
Uncaught ==
    /\ stderr' = Append(stderr, MsgUncaught)
    /\ Exit(1)

\* the two writeFile calls of cliGenerate, by the file of the temporary
\* directory each writes
TmpFiles == {"testFile", "map"}

ExecInit ==
    /\ params \in [name : Commands, parsed : Parsed, argsCommand : ArgLists,
                   unparsed : ArgLists, command : ShellCodes,
                   package : Packages, source : SourceLists,
                   markdownSource : SourceLists]
    \* a word yargs recommends a command for is not the name of one
    /\ params.parsed = MsgDidYouMean => params.name = JSUndefined
    /\ execPc = "parse"
    /\ yargsOut = <<>>
    /\ stderr = <<>>
    /\ exitCode = JSNull
    /\ tmp = NoTmp
    /\ tmpWrites = <<>>
    /\ envSet = {}
    /\ child = NoChild
    /\ ExecRestIdle

\* cli.js:399-433: y.parse(argv) writes its answer and exits with 0 on
\* --help, --version and completion, writes the help, an empty line and its
\* message and exits with 1 on what it objects to, and runs the handler of
\* the command it finds; without a command parseArgs prints the help and
\* its message and exits
ParseArgs ==
    /\ execPc = "parse"
    /\ IF params.parsed \in YargsAnswers
       THEN /\ yargsOut' = Append(yargsOut, Answer(params))
            /\ Exit(0)
            /\ UNCHANGED stderr
       ELSE IF params.parsed \in YargsErrors
       THEN /\ stderr' = stderr \o <<Help(params), "", params.parsed>>
            /\ Exit(1)
            /\ UNCHANGED yargsOut
       ELSE IF IsDef(params.name)
       THEN /\ execPc' = "handler"
            /\ UNCHANGED <<yargsOut, stderr, exitCode, tmp>>
       ELSE /\ AssertCliParamsFails(MsgHelp, MsgNoCommandName)
            /\ UNCHANGED yargsOut
    /\ UNCHANGED <<params, tmpWrites, envSet, child>>
    /\ UNCHANGED ExecRest

\* cli.js:353-371 and 622-628: the handler of generate refuses arguments
\* behind `--` and a command line without sources; if it lets the command
\* line through, main calls cliGenerate, which init awaits
GenerateHandler ==
    /\ execPc = "handler"
    /\ params.name = "generate"
    /\ IF ~Empty(params.unparsed)
       THEN AssertCliParamsFails(MsgHelpGenerate, MsgUnparsed)
       ELSE IF Empty(params.source) /\ Empty(params.markdownSource)
       THEN AssertCliParamsFails(MsgHelpGenerate, MsgNoSources)
       ELSE /\ execPc' = "cliGenerate"
            /\ UNCHANGED <<stderr, exitCode, tmp>>
    /\ UNCHANGED <<params, yargsOut, tmpWrites, envSet, child>>
    /\ UNCHANGED ExecRest

\* cli.js:656: cliGenerate settles under init: resolved (with undefined),
\* process.exitCode is set to 0 and the process ends once nothing is left
\* to do; rejected, the rejection reaches onUncaught
CliGenerateSettles ==
    /\ execPc = "cliGenerate"
    /\ \E ok \in BOOLEAN :
         IF ok
         THEN /\ exitCode' = 0
              /\ execPc' = "ending"
              /\ UNCHANGED <<stderr, tmp>>
         ELSE Uncaught
    /\ UNCHANGED <<params, yargsOut, tmpWrites, envSet, child>>
    /\ UNCHANGED ExecRest

\* cli.js:341-351, 192-198, 622-626 and 559-572: the handler of the command
\* checks the two forms; if it lets them through, main calls cliExecute,
\* which awaits findPkg
ExecHandler ==
    /\ execPc = "handler"
    /\ params.name = "exec"
    /\ IF Xor(~Empty(ArgsCommand(params)), IsDef(params.command))
       THEN /\ execPc' = "findPkg"
            /\ UNCHANGED <<stderr, exitCode, tmp>>
       ELSE AssertCliParamsFails(MsgHelpExec, MsgNoCommand)
    /\ UNCHANGED <<params, yargsOut, tmpWrites, envSet, child>>
    /\ UNCHANGED ExecRest

\* cli.js:568-594 and 177-182: findPkg settles; on failure the error is
\* reported, as one of parsing when findPkg had found the file
\* (er.__findPkgJsonFile is set), and the process exits with 1; otherwise
\* mkTmpDir registers the removal of the directory and creates it, and
\* mkdir of node_modules is awaited.  When mkdirSync throws, the exception
\* reaches onUncaught, whose exit(1) runs the listener on a directory that
\* was never made: it throws in turn and onUncaught runs a second time.
FindPkgSettles ==
    /\ execPc = "findPkg"
    /\ \E found, made \in BOOLEAN, er \in PkgErrors :
         IF found /\ made
         THEN /\ tmp' = [NoTmp EXCEPT !.exists = TRUE, !.hook = TRUE]
              /\ execPc' = "mkdir"
              /\ UNCHANGED <<stderr, exitCode>>
         ELSE IF found
         THEN /\ stderr' = stderr \o <<MsgUncaught, MsgUncaught>>
              /\ exitCode' = 1
              /\ execPc' = "exited"
              /\ tmp' = NoTmp
         ELSE /\ stderr' = Append(stderr, IF IsDef(er.file)
                                          THEN MsgParsePkg ELSE MsgFindPkg)
              /\ Exit(1)
    /\ UNCHANGED <<params, yargsOut, tmpWrites, envSet, child>>
    /\ UNCHANGED ExecRest

\* cli.js:594-595: mkdir settles, symlink is awaited
MkdirSettles ==
    /\ execPc = "mkdir"
    /\ \E ok \in BOOLEAN :
         IF ok
         THEN /\ tmp' = [tmp EXCEPT !.nodeModules = TRUE]
              /\ execPc' = "symlink"
              /\ UNCHANGED <<stderr, exitCode>>
         ELSE Uncaught
    /\ UNCHANGED <<params, yargsOut, tmpWrites, envSet, child>>
    /\ UNCHANGED ExecRest

\* cli.js:595-603: symlink settles, NODE_PATH is set, cliGenerate is called
\* and awaits generateTests
SymlinkSettles ==
    /\ execPc = "symlink"
    /\ \E ok \in BOOLEAN :
         IF ok
         THEN /\ tmp' = [tmp EXCEPT !.link = TRUE]
              /\ envSet' = envSet \cup {"NODE_PATH"}
              /\ execPc' = "generate"
              /\ UNCHANGED <<stderr, exitCode>>
         ELSE Uncaught /\ UNCHANGED envSet
    /\ UNCHANGED <<params, yargsOut, tmpWrites, child>>
    /\ UNCHANGED ExecRest

\* cli.js:510-539: generateTests settles in cliGenerate; the two writeFile
\* calls are issued and Promise.all of them is awaited
GenerateTestsSettlesInTmp ==
    /\ execPc = "generate"
    /\ \E ok \in BOOLEAN :
         IF ok
         THEN /\ tmpWrites' = [f \in TmpFiles |-> "pending"]
              /\ execPc' = "writing"
              /\ UNCHANGED <<stderr, exitCode, tmp>>
         ELSE Uncaught /\ UNCHANGED tmpWrites
    /\ UNCHANGED <<params, yargsOut, envSet, child>>
    /\ UNCHANGED ExecRest

\* cli.js:526, 533: one of the two writes settles; when it fails the other
\* is carried out all the same
TmpWriteSettles(f) ==
    /\ execPc = "writing"
    /\ tmpWrites[f] = "pending"
    /\ \E ok \in BOOLEAN :
         IF ok
         THEN /\ tmp' = [tmp EXCEPT ![f] = TRUE]
              /\ tmpWrites' = [tmpWrites EXCEPT ![f] = "ok"]
         ELSE /\ tmpWrites' = [tmpWrites EXCEPT ![f] = "failed"]
              /\ UNCHANGED tmp
    /\ UNCHANGED <<params, yargsOut, execPc, stderr, exitCode, envSet, child>>
    /\ UNCHANGED ExecRest

\* cli.js:539 and 601-611: Promise.all of the writes settles.  Rejected, it
\* reaches onUncaught.  Resolved, cliGenerate returns, DOCTEST_FILE is set
\* and spawn is called, with the shell if the command was given with -c:
\* spawn throws on the empty string; a command that cannot be started gives
\* a child without a process.
GenerateSettles ==
    /\ execPc = "writing"
    /\ IF Rejected(tmpWrites)
       THEN Uncaught /\ UNCHANGED <<envSet, child>>
       ELSE /\ Fulfilled(tmpWrites)
            /\ envSet' = envSet \cup {"DOCTEST_FILE"}
            /\ IF IsDef(params.command) /\ params.command = ""
               THEN /\ child' = [NoChild EXCEPT !.shell = TRUE,
                                                !.cmd = <<params.command>>]
                    /\ Uncaught
               ELSE /\ \E started \in BOOLEAN :
                         child' = IF IsDef(params.command)
                                  THEN [NoChild EXCEPT
                                           !.shell = TRUE,
                                           !.cmd = <<params.command>>,
                                           !.running = TRUE]
                                  ELSE [NoChild EXCEPT
                                           !.cmd = ArgsCommand(params),
                                           !.running = started]
                    /\ execPc' = "running"
                    /\ UNCHANGED <<stderr, exitCode, tmp>>
    /\ UNCHANGED <<params, yargsOut, tmpWrites>>
    /\ UNCHANGED ExecRest

\* the 'error' event of a child without a process: nobody listens to it, so
\* it reaches onUncaught
ChildError ==
    /\ execPc = "running"
    /\ ~child.running
    /\ child' = [child EXCEPT !.ended = "error"]
    /\ Uncaught
    /\ UNCHANGED <<params, yargsOut, tmpWrites, envSet>>
    /\ UNCHANGED ExecRest

\* cli.js:106-108 and 656: the child exits with a code, or with null when a
\* signal ended it; process.exitCode = code || 0, and the process ends once
\* nothing is left to do
ChildExits ==
    /\ execPc = "running"
    /\ child.running
    /\ \E signalled \in BOOLEAN, code \in ChildCodes :
         /\ exitCode' = IF signalled \/ code = 0 THEN 0 ELSE code
         /\ child' = IF signalled
                     THEN [child EXCEPT !.running = FALSE, !.ended = "signal"]
                     ELSE [child EXCEPT !.running = FALSE, !.ended = "code",
                                        !.code = code]
    /\ execPc' = "ending"
    /\ UNCHANGED <<params, yargsOut, stderr, tmp, tmpWrites, envSet>>
    /\ UNCHANGED ExecRest

\* nothing is left to do after init has set process.exitCode: 'beforeExit'
\* and 'exit' are emitted, the listener of mkTmpDir removes the directory
\* and the process ends with process.exitCode
ProcessEnds ==
    /\ execPc = "ending"
    /\ Ended
    /\ UNCHANGED <<params, yargsOut, stderr, exitCode, tmpWrites, envSet, child>>
    /\ UNCHANGED ExecRest

\* cli.js:654-655: SIGINT or SIGTERM while an await of cliExecute or of init
\* is pending, or before the process has ended after the last one: the
\* handler calls exit(128) and does nothing about the child, which goes on
\* unless the signal was sent to it as well and ended it
Signal ==
    /\ execPc \in {"findPkg", "mkdir", "symlink", "generate", "writing",
                   "running", "cliGenerate", "ending"}
    /\ Exit(128)
    /\ \E ended \in BOOLEAN :
         child' = IF ended /\ child.running
                  THEN [child EXCEPT !.running = FALSE, !.ended = "signal"]
                  ELSE child
    /\ UNCHANGED <<params, yargsOut, stderr, tmpWrites, envSet>>
    /\ UNCHANGED ExecRest

\* the child of a process that has exited comes to its end
OrphanExits ==
    /\ execPc = "exited"
    /\ child.running
    /\ \E code \in ChildCodes :
         child' = [child EXCEPT !.running = FALSE, !.ended = "code",
                                !.code = code]
    /\ UNCHANGED <<params, yargsOut, execPc, stderr, exitCode, tmp, tmpWrites, envSet>>
    /\ UNCHANGED ExecRest

ExecNext ==
    \/ ParseArgs
    \/ GenerateHandler
    \/ CliGenerateSettles
    \/ ExecHandler
    \/ FindPkgSettles
    \/ MkdirSettles
    \/ SymlinkSettles
    \/ GenerateTestsSettlesInTmp
    \/ \E f \in TmpFiles : TmpWriteSettles(f)
    \/ GenerateSettles
    \/ ChildError
    \/ ChildExits
    \/ ProcessEnds
    \/ Signal
    \/ OrphanExits

SpecExec == ExecInit /\ [][ExecNext]_vars

-----------------------------------------------------------------------------
(* rmRecursiveSync (cli.js).  The file system maps every existing path to   *)
(* its kind: "file", "dir" or "link" (a symbolic link to LinkTarget).       *)

MaxEntries == 4

\* the directory the tree to remove lives in
TmpRoot == <<"t">>

\* the paths that may exist below TmpRoot
TreeBelow ==
    { <<"t", "a">>, <<"t", "b">>, <<"t", "a", "a">>, <<"t", "a", "b">>,
      <<"t", "a", "a", "a">>, <<"t", "b", "a">> }

\* where every symbolic link points to: a directory outside of TmpRoot
LinkTarget == <<"o">>

\* what exists besides the tree
FixedFs == (TmpRoot :> "dir") @@ (LinkTarget :> "dir") @@ (<<"o", "x">> :> "file")

\* the names readdirSync can report, in the order it reports them
EntryNames == <<"a", "b", "x">>

EntryKinds == {"file", "dir", "link"}

Parent(path) == SubSeq(path, 1, Len(path) - 1)

\* path lies in the subtree of top (top included)
Below(path, top) ==
    Len(path) >= Len(top) /\ SubSeq(path, 1, Len(top)) = top

\* the path with the symbolic links among its directories followed
Real(fs, path) ==
    IF \E k \in 1..(Len(path) - 1) :
           /\ SubSeq(path, 1, k) \in DOMAIN fs
           /\ fs[SubSeq(path, 1, k)] = "link"
    THEN LET k == CHOOSE k \in 1..(Len(path) - 1) :
                      /\ SubSeq(path, 1, k) \in DOMAIN fs
                      /\ fs[SubSeq(path, 1, k)] = "link"
         IN LinkTarget \o SubSeq(path, k + 1, Len(path))
    ELSE path

\* the path with the link it names followed as well
Followed(fs, path) ==
    LET q == Real(fs, path)
    IN IF q \in DOMAIN fs /\ fs[q] = "link" THEN LinkTarget ELSE q

\* statSync(file): the kind of what the path leads to
StatSync(fs, file) == fs[Followed(fs, file)]

\* the fs.Dirent of readdirSync(.., { withFileTypes: true }): the kind of
\* the entry itself
Dirent(fs, file) == fs[Real(fs, file)]

\* readdirSync(file): the names in the directory, in order
ReaddirSync(fs, file) ==
    LET dir == Followed(fs, file)
    IN SelectSeq(EntryNames, LAMBDA n : Append(dir, n) \in DOMAIN fs)

\* unlinkSync(file) on the state [fs, log, ok]: throws on a directory
UnlinkSync(st, file) ==
    LET q == Real(st.fs, file)
    IN IF q \in DOMAIN st.fs /\ st.fs[q] # "dir"
       THEN [fs |-> [x \in DOMAIN st.fs \ {q} |-> st.fs[x]],
             log |-> Append(st.log, q), ok |-> TRUE]
       ELSE [st EXCEPT !.ok = FALSE]

\* rmdirSync(file): throws unless file is an empty directory
RmdirSync(st, file) ==
    LET q == Real(st.fs, file)
    IN IF /\ q \in DOMAIN st.fs
          /\ st.fs[q] = "dir"
          /\ \A x \in DOMAIN st.fs : Parent(x) # q
       THEN [fs |-> [x \in DOMAIN st.fs \ {q} |-> st.fs[x]],
             log |-> Append(st.log, q), ok |-> TRUE]
       ELSE [st EXCEPT !.ok = FALSE]

RECURSIVE RmRecursive(_, _, _)
RECURSIVE RmEach(_, _, _, _)

\* cli.js:154-164 with the entry given: rmRecursiveSync(file, ent)
RmRecursive(st, file, ent) ==
    IF ~st.ok THEN st
    ELSE IF ent # "dir" THEN UnlinkSync(st, file)
    ELSE LET after == RmEach(st, file, ReaddirSync(st.fs, file), 1)
         IN IF after.ok THEN RmdirSync(after, file) ELSE after

\* cli.js:160-161: each(childs, (sub) => rmRecursiveSync(join(file, sub.name), sub))
RmEach(st, file, childs, i) ==
    IF i > Len(childs) \/ ~st.ok THEN st
    ELSE LET sub == Append(file, childs[i])
         IN RmEach(RmRecursive(st, sub, Dirent(st.fs, sub)), file, childs, i + 1)

RmInit ==
    /\ \E below \in SUBSET TreeBelow :
         /\ Cardinality(below) <= MaxEntries
         /\ \A q \in below : Parent(q) \in below \cup {TmpRoot}
         /\ \E kinds \in [below -> EntryKinds] :
              /\ \A q \in below :
                   IF Parent(q) \in below THEN kinds[Parent(q)] = "dir" ELSE TRUE
              /\ rmFs = [q \in below \cup DOMAIN FixedFs |->
                           IF q \in below THEN kinds[q] ELSE FixedFs[q]]
    /\ rmFs0 = rmFs
    /\ rmFile \in {q \in DOMAIN rmFs : Below(q, TmpRoot)}
    /\ rmLog = <<>>
    /\ rmPc = "call"
    /\ RmRestIdle

\* cli.js:154-164: rmRecursiveSync(file)
RmRecursiveSync ==
    /\ rmPc = "call"
    /\ LET st == RmRecursive([fs |-> rmFs, log |-> <<>>, ok |-> TRUE],
                             rmFile, StatSync(rmFs, rmFile))
       IN /\ rmFs' = st.fs
          /\ rmLog' = st.log
          /\ rmPc' = IF st.ok THEN "returned" ELSE "threw"
    /\ UNCHANGED <<rmFs0, rmFile>>
    /\ UNCHANGED RmRest

RmNext == RmRecursiveSync

SpecRm == RmInit /\ [][RmNext]_vars

-----------------------------------------------------------------------------
(* _requireNocache (index.js).  A module instance is the number of the load *)
(* that created it.                                                         *)

MaxLoads == 5

\* the modules, by the name require.resolve gives them
Mods == {"squirrelly", "yargs"}

\* require.cache[name] of a module that is not cached
NoEntry == 0

\* delete require.cache[name]
Delete(cache, name) == [cache EXCEPT ![name] = NoEntry]

\* require(name) on [cache, loads]: the cached instance, or a new one that
\* is entered into the cache
Require(st, name) ==
    IF st.cache[name] # NoEntry
    THEN [cache |-> st.cache, loads |-> st.loads, r |-> st.cache[name]]
    ELSE [cache |-> [st.cache EXCEPT ![name] = st.loads + 1],
          loads |-> st.loads + 1, r |-> st.loads + 1]

\* a last step that leaves the instance just loaded in the cache
Restored_KeepLoaded(cache, name, before) == cache

\* index.js:62-65: delete require.cache[name]; if (isdef(cache)) ...
Restored(cache, name, before) ==
    IF before # NoEntry
    THEN [Delete(cache, name) EXCEPT ![name] = before]
    ELSE Delete(cache, name)

\* index.js:56-67: _requireNocache(mod) on [cache, loads]
RequireNocache(st, name) ==
    LET before == st.cache[name]
        loaded == Require([cache |-> Delete(st.cache, name), loads |-> st.loads], name)
    IN [cache |-> Restored(loaded.cache, name, before),
        loads |-> loaded.loads, r |-> loaded.r]

ReqInit ==
    /\ requireCache = [m \in Mods |-> NoEntry]
    /\ loads = 0
    /\ lastCall = [op |-> "none", mod |-> "", before |-> requireCache, r |-> NoEntry]
    /\ ReqRestIdle

\* require(mod) by any module of the program
PlainRequire(mod) ==
    /\ requireCache[mod] = NoEntry => loads < MaxLoads
    /\ LET st == Require([cache |-> requireCache, loads |-> loads], mod)
       IN /\ requireCache' = st.cache
          /\ loads' = st.loads
          /\ lastCall' = [op |-> "require", mod |-> mod,
                          before |-> requireCache, r |-> st.r]
    /\ UNCHANGED ReqRest

\* index.js:56-67: _requireNocache(mod)
CallRequireNocache(mod) ==
    /\ loads < MaxLoads
    /\ LET st == RequireNocache([cache |-> requireCache, loads |-> loads], mod)
       IN /\ requireCache' = st.cache
          /\ loads' = st.loads
          /\ lastCall' = [op |-> "nocache", mod |-> mod,
                          before |-> requireCache, r |-> st.r]
    /\ UNCHANGED ReqRest

ReqNext ==
    \/ \E mod \in Mods : PlainRequire(mod)
    \/ \E mod \in Mods : CallRequireNocache(mod)

SpecReq == ReqInit /\ [][ReqNext]_vars

-----------------------------------------------------------------------------
(* _findFs and findMarkdownExamples (index.js).  The stat, readdir and      *)
(* readFile operations of a call are in flight together and complete in    *)
(* any order.                                                              *)

MaxPaths == 2

\* readdir(p): the names in each directory, in the order of the listing
Listing ==
    (<<"docs">> :> <<"b.md", "sub", "a.md", "c.js">>)
        @@ (<<"docs", "sub">> :> <<"e.md">>)

\* ent.isDirectory()
IsDirectory(p) == p \in DOMAIN Listing

\* path.extname(p)
Extname(p) ==
    IF Basename(p) \in {"a.md", "b.md", "e.md", "r.md"} THEN ".md"
    ELSE IF Basename(p) = "c.js" THEN ".js" ELSE ""

\* the paths a caller may pass
FindArgs == {<<"docs">>, <<"docs", "sub">>, <<"r.md">>}

\* the arguments: at most MaxPaths of them, no path twice
FindPathLists ==
    {ps \in UNION {[1..n -> FindArgs] : n \in 0..MaxPaths} :
        \A i, j \in 1..Len(ps) : ps[i] = ps[j] => i = j}

\* the filters: that of findMarkdownExamples, and the default () => true
FindFns == {"md", "all"}

\* fn(p, ent)
Accepts(fn, p) ==
    IF fn = "md" THEN ~IsDirectory(p) /\ Extname(p) = ".md" ELSE TRUE

\* the text of a markdown file: two fenced blocks in a.md, one elsewhere
MdText(file) ==
    LET fence == [kind |-> "fenced", n |-> 1, closed |-> TRUE,
                  blank |-> FALSE, depth |-> 0]
    IN [lead |-> 0,
        blocks |-> IF Basename(file) = "a.md" THEN <<fence, fence>>
                   ELSE <<fence>>]

\* an operation in flight: its kind, the place of its call among the calls
\* of its kind, and its path
Op(kind, i, path) == [kind |-> kind, i |-> i, path |-> path]

\* the place of op among the completed operations, 0 if it is not there
Rank(op, settled) ==
    IF \E n \in 1..Len(settled) : settled[n] = op
    THEN CHOOSE n \in 1..Len(settled) : settled[n] = op
    ELSE 0

\* the values of the forks in the order in which their operations completed
PromiseAll_AsSettled(forks, settled) ==
    LET Before(a, b) ==
            \/ Rank(forks[a].op, settled) < Rank(forks[b].op, settled)
            \/ Rank(forks[a].op, settled) = Rank(forks[b].op, settled) /\ a < b
        at == [j \in 1..Len(forks) |->
                  CHOOSE a \in 1..Len(forks) :
                      Cardinality({b \in 1..Len(forks) : Before(b, a)}) = j - 1]
    IN [j \in 1..Len(forks) |-> forks[at[j]].value]

\* await Promise.all(forks): the values of the forks, in the order of forks
PromiseAll(forks, settled) == [j \in 1..Len(forks) |-> forks[j].value]

RECURSIVE FindFs(_, _, _, _, _)
\* index.js:387-396: what _findFs(p, fn, ent) of the i-th path resolves to;
\* kind is the operation the call waits for first
FindFs(i, p, fn, kind, settled) ==
    LET forks == IF ~IsDirectory(p) THEN <<>>
                 ELSE [k \in 1..Len(Listing[p]) |->
                         LET sub == Append(p, Listing[p][k])
                             first == IF IsDirectory(sub) THEN "readdir"
                                      ELSE "none"
                         IN [op |-> Op(first, i, sub),
                             value |-> FindFs(i, sub, fn, first, settled)]]
        children == Flatten(PromiseAll(forks, settled))
    IN IF Accepts(fn, p) THEN <<p>> \o children ELSE children

FindInit ==
    /\ findPaths \in FindPathLists
    /\ findFn \in FindFns
    /\ findPending = {}
    /\ findSettled = <<>>
    /\ findFiles = <<>>
    /\ findPc = "start"
    /\ findResult = <<>>
    /\ FindRestIdle

\* index.js:414-418: a call of _findFs for every path, each waiting for stat
FindCall ==
    /\ findPc = "start"
    /\ findPending' = {Op("stat", i, findPaths[i]) : i \in 1..Len(findPaths)}
    /\ findPc' = "listing"
    /\ UNCHANGED <<findPaths, findFn, findSettled, findFiles, findResult>>
    /\ UNCHANGED FindRest

\* index.js:388-392: stat(p) completes; a directory is listed
StatSettles(op) ==
    /\ findPc = "listing"
    /\ op \in findPending
    /\ op.kind = "stat"
    /\ findPending' =
           (findPending \ {op})
               \cup (IF IsDirectory(op.path)
                     THEN {Op("readdir", op.i, op.path)} ELSE {})
    /\ findSettled' = Append(findSettled, op)
    /\ UNCHANGED <<findPaths, findFn, findFiles, findPc, findResult>>
    /\ UNCHANGED FindRest

\* index.js:390-392: readdir(p) completes; _findFs is called for every entry,
\* and that of a directory lists it
ReaddirSettles(op) ==
    /\ findPc = "listing"
    /\ op \in findPending
    /\ op.kind = "readdir"
    /\ findPending' =
           (findPending \ {op})
               \cup {Op("readdir", op.i, Append(op.path, Listing[op.path][k])) :
                       k \in {k \in 1..Len(Listing[op.path]) :
                                IsDirectory(Append(op.path, Listing[op.path][k]))}}
    /\ findSettled' = Append(findSettled, op)
    /\ UNCHANGED <<findPaths, findFn, findFiles, findPc, findResult>>
    /\ UNCHANGED FindRest

\* index.js:420-427: await Promise.all(_paths), flat; with the filter of
\* findMarkdownExamples every file is read, a bare _findFs is done
ListingDone ==
    /\ findPc = "listing"
    /\ findPending = {}
    /\ LET forks == [i \in 1..Len(findPaths) |->
                       [op |-> Op("stat", i, findPaths[i]),
                        value |-> FindFs(i, findPaths[i], findFn, "stat",
                                         findSettled)]]
           files == Flatten(PromiseAll(forks, findSettled))
       IN /\ findFiles' = files
          /\ IF findFn = "md"
             THEN /\ findPending' =
                         {Op("readFile", k, files[k]) : k \in 1..Len(files)}
                  /\ findPc' = "reading"
                  /\ UNCHANGED findResult
             ELSE /\ findResult' = files
                  /\ findPc' = "done"
                  /\ UNCHANGED findPending
    /\ UNCHANGED <<findPaths, findFn, findSettled>>
    /\ UNCHANGED FindRest

\* index.js:425-426: readFile(file) completes
MdReadSettles(op) ==
    /\ findPc = "reading"
    /\ op \in findPending
    /\ op.kind = "readFile"
    /\ findPending' = findPending \ {op}
    /\ findSettled' = Append(findSettled, op)
    /\ UNCHANGED <<findPaths, findFn, findFiles, findPc, findResult>>
    /\ UNCHANGED FindRest

\* index.js:425-430: flat(await Promise.all(extracted))
ExtractDone ==
    /\ findPc = "reading"
    /\ findPending = {}
    /\ LET forks == [k \in 1..Len(findFiles) |->
                       [op |-> Op("readFile", k, findFiles[k]),
                        value |-> ExtractFromMarkdown(MdText(findFiles[k]),
                                                      findFiles[k])]]
       IN findResult' = Flatten(PromiseAll(forks, findSettled))
    /\ findPc' = "done"
    /\ UNCHANGED <<findPaths, findFn, findPending, findSettled, findFiles>>
    /\ UNCHANGED FindRest

FindNext ==
    \/ FindCall
    \/ \E op \in findPending : StatSettles(op)
    \/ \E op \in findPending : ReaddirSettles(op)
    \/ ListingDone
    \/ \E op \in findPending : MdReadSettles(op)
    \/ ExtractDone

SpecFind == FindInit /\ [][FindNext]_vars

-----------------------------------------------------------------------------
(* Claims about generatingSourceMap *)

\* the text written so far; the text returned once pc = "done"
Output == Flatten(buf)

\* the example and the code line mapping i was added for
SiteExample(i) == Cached(exampleCache, sites[i].uuid)
SiteLine(i) == SplitLines(SiteExample(i).code)[sites[i].k + 1]

\* position j of t (from 1) has only blanks before it on its line
OnlyBlanksBefore(t, j) ==
    \A i \in 1..(j - 1) :
        (\A l \in i..(j - 1) : t[l] # LF) => IsWs(t[i])

\* the renderer put every placeholder of the call on a line of its own,
\* behind an indentation
WellIndented(t) ==
    \A j \in 1..Len(t) :
        (IsPlaceholder(t[j]) /\ InCache(exampleCache, TokenOf(t[j])))
            => OnlyBlanksBefore(t, j)

\* C1: when the renderer reproduces every placeholder behind an indentation of
\* blanks, the output text from a mapping's generated line and column to the end
\* of that line is the code line the mapping was added for.
C1_RoundTrip ==
    WellIndented(gen) =>
        \A i \in 1..Len(sourceMap) :
            LET g == sourceMap[i].generated
                outLines == SplitLines(Output)
            IN /\ g.line \in 1..Len(outLines)
               /\ g.column <= Len(outLines[g.line])
               /\ SubSeq(outLines[g.line], g.column + 1, Len(outLines[g.line]))
                      = SiteLine(i)

\* both examples rendered, each on lines of its own, and the call returned
C1_Witness ==
    /\ pc = "done"
    /\ WellIndented(gen)
    /\ Len(sourceMap) = 3
    /\ sourceMap[1].source = F1
    /\ sourceMap[3].source = F2
    /\ sourceMap[3].generated.line > sourceMap[2].generated.line

\* the mappings added for the example with token id
MappingsOf(id) == {i \in 1..Len(sites) : sites[i].uuid = id}

\* the times the placeholder of token id occurs in the rendered text
Occurrences(id) == Cardinality({j \in 1..Len(gen) : gen[j] = Placeholder(id)})

\* C3, as stated: once the call has returned, the number of mappings of every
\* example whose placeholder is in the rendered text is the number of lines of
\* its code.
C3_LineCount ==
    pc = "done" =>
        \A c \in 1..Len(exampleCache) :
            Occurrences(exampleCache[c].id) >= 1 =>
                Cardinality(MappingsOf(exampleCache[c].id))
                    = Len(SplitLines(exampleCache[c].example.code))

\* C3, amended: once the call has returned, the number of mappings of every
\* example is the number of lines of its code times the number of occurrences
\* of its placeholder in the rendered text.
C3_LineCountPerOccurrence ==
    pc = "done" =>
        \A c \in 1..Len(exampleCache) :
            Cardinality(MappingsOf(exampleCache[c].id))
                = Occurrences(exampleCache[c].id)
                      * Len(SplitLines(exampleCache[c].example.code))

\* the example of two lines rendered twice: four mappings
C3_Witness ==
    /\ pc = "done"
    /\ Len(exampleCache) = 1
    /\ Len(SplitLines(exampleCache[1].example.code)) = 2
    /\ Occurrences(exampleCache[1].id) = 2
    /\ Len(sourceMap) = 4

\* C4: the mapping of line k of an example has the example's file as source,
\* the example's line + k as original line and, as original column, the length
\* of that line of the file less the length of the code line: whatever the place
\* and the number of the placeholders in the rendered text.
C4_OriginalPosition ==
    \A i \in 1..Len(sourceMap) :
        LET ex == SiteExample(i)
            k == sites[i].k
        IN /\ sourceMap[i].source = ex.file
           /\ sourceMap[i].original.line = ex.line + k
           /\ sourceMap[i].original.column =
                  Len(SplitLines(Disk[ex.file])[ex.line + k]) - Len(SiteLine(i))

\* the example of F2, at column 2 of its file, rendered twice: two mappings
\* with the same original position on different generated lines
C4_Witness ==
    /\ pc = "done"
    /\ Len(sourceMap) = 2
    /\ sourceMap[1].source = F2
    /\ sourceMap[1].original = [column |-> 2, line |-> 2]
    /\ sourceMap[2].original = sourceMap[1].original
    /\ sourceMap[2].generated.line # sourceMap[1].generated.line

\* the number of blanks that end just before position j of t (from 1)
BlanksBefore(t, j) ==
    CHOOSE n \in 0..(j - 1) :
        /\ \A l \in (j - n)..(j - 1) : IsWs(t[l])
        /\ n = j - 1 \/ ~IsWs(t[j - n - 1])

\* C5: the generated column of every mapping is the length of the run of
\* spaces and tabs the renderer put before the placeholder.
C5_GeneratedColumn ==
    \A i \in 1..Len(sourceMap) :
        /\ gen[sites[i].at + 1] = Placeholder(sites[i].uuid)
        /\ sourceMap[i].generated.column = BlanksBefore(gen, sites[i].at + 1)

\* "\n  <<placeholder>>" for the example of two lines: column 2 for both lines
C5_Witness ==
    /\ pc = "done"
    /\ Len(sourceMap) = 2
    /\ sourceMap[1].source = F1
    /\ sourceMap[1].generated.column = 2
    /\ sourceMap[2].generated.column = 2
    /\ sourceMap[2].generated.line = sourceMap[1].generated.line + 1

\* C11: when the file of an example whose placeholder is in the rendered text
\* cannot be read the call fails: once the read is issued the call only waits
\* for it and then fails, the call never returns, and nothing (no text, no
\* part of the source map) is handed back.
C11_UnreadableFileFails ==
    /\ (reads # <<>> /\ reads[Len(reads)] \in missing)
           => (pc \in {"read", "failed"} /\ result = JSNull)
    /\ pc = "done" =>
           \A c \in 1..Len(exampleCache) :
               Occurrences(exampleCache[c].id) >= 1
                   => exampleCache[c].example.file \notin missing
    /\ pc # "done" => result = JSNull

\* the first example was mapped, the file of the second could not be read
C11_Witness ==
    /\ pc = "failed"
    /\ reads = <<F1, F2>>
    /\ missing = {F2}
    /\ Len(sourceMap) = 2
    /\ result = JSNull

\* the example a call was given under token id
GivenAs(id) ==
    exampleCache[CHOOSE c \in 1..Len(exampleCache) :
                     exampleCache[c].id = id].example

\* the mappings of example ex in a call that renders it alone, at the start
\* of the text
Unfiltered(ex) ==
    [k \in 1..Len(SplitLines(ex.code)) |->
        LineMapping(SplitLines(Disk[ex.file]), ex.file,
                    SplitLines(ex.code)[k], ex.line + k - 1, k - 1, <<>>)]

\* C13: when some examples were removed before the call (and the renderer puts
\* every placeholder behind an indentation on a line of its own), every mapping
\* is one of a remaining example, has the original file, line and column that
\* example has without the filter, and its generated position is where the
\* code line stands in the output.
C13_FilterKeepsMappings ==
    (Len(examples) < Len(AllExamples) /\ WellIndented(gen)) =>
        \A i \in 1..Len(sourceMap) :
            LET ex == GivenAs(sites[i].uuid)
                k == sites[i].k
                g == sourceMap[i].generated
                outLines == SplitLines(Output)
            IN /\ \E e \in 1..Len(examples) : examples[e] = ex
               /\ sourceMap[i].source = ex.file
               /\ sourceMap[i].original = Unfiltered(ex)[k + 1].original
               /\ g.line \in 1..Len(outLines)
               /\ SubSeq(outLines[g.line], g.column + 1, Len(outLines[g.line]))
                      = SplitLines(ex.code)[k + 1]

\* the first example was removed and its file cannot be read any more; the
\* second is mapped as before
C13_Witness ==
    /\ pc = "done"
    /\ examples = <<AllExamples[2]>>
    /\ missing = {F1}
    /\ Len(sourceMap) = 1
    /\ sourceMap[1].source = F2
    /\ sourceMap[1].original = [column |-> 2, line |-> 2]
    /\ sourceMap[1].generated.column = 1

\* C10: a pass of the loop over a match whose token is not in the cache writes
\* the text before the match and the match itself, adds no mapping, reads no
\* file and does not fail.
C10_UnknownTokenPassThrough ==
    [][(pc = "post" /\ Exec(gen, lastMatchEnd) # NoMatch
            /\ ~InCache(exampleCache, Exec(gen, lastMatchEnd).uuid))
        => /\ pc' = "post"
           /\ sourceMap' = sourceMap
           /\ reads' = reads
           /\ Flatten(buf') =
                  Flatten(buf)
                      \o Slice(gen, lastMatchEnd, Exec(gen, lastMatchEnd).index)
                      \o Exec(gen, lastMatchEnd).match]_vars

\* The pass is as C10 says whenever the text between the previous match and
\* this one holds a line feed.
UnknownTokenPassThroughAfterLF ==
    [][(pc = "post" /\ Exec(gen, lastMatchEnd) # NoMatch
            /\ ~InCache(exampleCache, Exec(gen, lastMatchEnd).uuid)
            /\ CountLF(Slice(gen, lastMatchEnd,
                             Exec(gen, lastMatchEnd).index)) > 0)
        => /\ pc' = "post"
           /\ sourceMap' = sourceMap
           /\ reads' = reads
           /\ Flatten(buf') =
                  Flatten(buf)
                      \o Slice(gen, lastMatchEnd, Exec(gen, lastMatchEnd).index)
                      \o Exec(gen, lastMatchEnd).match]_vars

-----------------------------------------------------------------------------
(* Claims about loadSourceFile *)

\* the files of a sequence
FilesOf(fs) == {fs[i] : i \in 1..Len(fs)}

\* C12: a call reads no file twice, and its cache is its own: what it holds
\* the call has read itself, and a call that returns has read every file it
\* needed, whatever the other call has read before.
C12_ReadOncePerCall ==
    \A c \in CallIds :
        /\ \A i, j \in 1..Len(calls[c].reads) :
               calls[c].reads[i] = calls[c].reads[j] => i = j
        /\ DOMAIN calls[c].sourceCache \subseteq FilesOf(calls[c].reads)
        /\ calls[c].pc = "done" =>
               FilesOf(calls[c].reads) = FilesOf(calls[c].needs)

\* both calls needed F1 three times, both have returned, each has read it once
C12_Witness ==
    /\ \A c \in CallIds :
           /\ calls[c].pc = "done"
           /\ calls[c].needs = <<F1, F1, F1>>
           /\ calls[c].reads = <<F1>>

-----------------------------------------------------------------------------
(* Claims about generateTests *)

\* C6: the names of the examples generateTests hands to the renderer are
\* pairwise distinct.
C6_UniqueNames ==
    gtPc = "rendered" =>
        \A i, j \in 1..Len(batch) : batch[i].name = batch[j].name => i = j

\* The names of the examples of one listing of a markdown file are pairwise
\* distinct.
UniqueNamesWithinMarkdownFile ==
    \A k \in 1..Len(markdownSource) :
        LET records == ExtractFromMarkdown(markdownSource[k].md,
                                           markdownSource[k].file)
        IN \A i, j \in 1..Len(records) :
               records[i].name = records[j].name => i = j

-----------------------------------------------------------------------------
(* Claims about extractFromDoc *)

\* the tags titled 'example', in the order of doc.tags
ExampleTags(d) == SelectSeq(d.tags, LAMBDA t : t.title = "example")

\* the dotted path of the symbol, at most two ancestors deep
DottedPath(d) ==
    IF Len(d.path) = 1 THEN d.path[1].name
    ELSE d.path[1].name \o "::" \o d.path[2].name

\* C8: extractFromDoc numbers the n examples of one documented symbol 0..n-1 in
\* the order in which they are encountered and names each
\* "<basename of file> <ancestor names joined by '::'> #<index>".
C8_SequentialNames ==
    docPc = "done" =>
        LET found == ExtractFromDocImpl(doc)
        IN /\ Len(docRecords) = Len(found)
           /\ \A k \in 1..Len(docRecords) :
                 /\ docRecords[k].code = found[k].code
                 /\ docRecords[k].line = found[k].line
                 /\ docRecords[k].lang = found[k].lang
                 /\ docRecords[k].name =
                        doc.context.file[Len(doc.context.file)] \o " "
                            \o DottedPath(doc) \o " #" \o ToString(k - 1)

\* two tag examples and a fenced block of the description, of a member
C8_Witness ==
    /\ docPc = "done"
    /\ Len(docRecords) = 3
    /\ Len(ExampleTags(doc)) = 2
    /\ docRecords[3].lang = "js"
    /\ docRecords[3].name = "a.js Baz::foo #2"

\* the records that come from tags: those of the description carry their node
FromTags(records) == SelectSeq(records, LAMBDA r : "md" \notin DOMAIN r)

\* C9: every tag titled 'example' yields one record with lang null, the tag's
\* body as code and line tag.lineNumber + doc.loc.start.line + 1; a tag with
\* another title yields none.
C9_ExampleTagRecords ==
    docPc = "done" =>
        LET tags == ExampleTags(doc)
            recs == FromTags(docRecords)
        IN /\ Len(recs) = Len(tags)
           /\ \A k \in 1..Len(tags) :
                 /\ recs[k].lang = JSNull
                 /\ recs[k].code = tags[k].description
                 /\ recs[k].file = doc.context.file
                 /\ recs[k].line =
                        tags[k].lineNumber + doc.loc.start.line + 1

\* an example tag on line 1 of a comment that begins on line 2, after a tag of
\* another title
C9_Witness ==
    /\ docPc = "done"
    /\ Len(doc.tags) = 2
    /\ doc.tags[1].title = "param"
    /\ doc.tags[2].title = "example"
    /\ doc.tags[2].lineNumber = 1
    /\ doc.loc.start.line = 2
    /\ Len(FromTags(docRecords)) = 1
    /\ FromTags(docRecords)[1].line = 4

-----------------------------------------------------------------------------
(* The code blocks of a document, read off its text layout *)

RECURSIVE LinesBefore(_, _)
\* the lines of blocks 1..i-1 and of the blank line after each
LinesBefore(bs, i) ==
    IF i <= 1 THEN 0 ELSE LinesBefore(bs, i - 1) + Span(bs[i - 1]) + 1

\* the line of the text on which block i begins (its opening fence, if fenced)
BlockStart(d, i) == 1 + d.lead + LinesBefore(d.blocks, i)

\* the indices of the code blocks of d, in document order
CodeBlocks(d) ==
    SelectSeq([i \in 1..Len(d.blocks) |-> i],
              LAMBDA i : d.blocks[i].kind # "para")

\* C2: every record of a fenced block whose opening fence is on line L has
\* line L + 1, and every record of an indented block that begins on line L
\* has line L, whatever the length of the body.
C2_FencedOffset ==
    mdPc = "done" =>
        /\ Len(mdRecords) = Len(CodeBlocks(mdDoc))
        /\ \A k \in 1..Len(mdRecords) :
              LET i == CodeBlocks(mdDoc)[k]
                  L == BlockStart(mdDoc, i)
              IN mdRecords[k].line =
                     IF mdDoc.blocks[i].kind = "fenced" THEN L + 1 ELSE L

\* The offset is right for every block but a fence that is opened on the last
\* line of its container and never closed: its node spans one line, as many
\* as its empty value counts, and it is taken for an indented block.
FencedOffsetButEmptyUnclosed ==
    mdPc = "done" =>
        \A k \in 1..Len(mdRecords) :
            LET i == CodeBlocks(mdDoc)[k]
                b == mdDoc.blocks[i]
                L == BlockStart(mdDoc, i)
            IN mdRecords[k].line =
                   IF b.kind = "fenced" /\ (b.closed \/ b.n > 0)
                   THEN L + 1 ELSE L

\* C7: extractFromMdast yields one record per code node and none for any other
\* node, in document order, and names the k-th record (from 0)
\* "<basename of file> #k".
C7_OneRecordPerCodeNode ==
    mdPc = "done" =>
        /\ Len(mdRecords) = Len(CodeBlocks(mdDoc))
        /\ \A k \in 1..Len(mdRecords) :
              LET i == CodeBlocks(mdDoc)[k]
              IN /\ mdRecords[k].md.type = "code"
                 /\ mdRecords[k].md.position.start.line = BlockStart(mdDoc, i)
                 /\ mdRecords[k].code = JoinLines(BodyLines(mdDoc.blocks[i]))
                 /\ mdRecords[k].name =
                        (IF mdFile = JSNull THEN "null" ELSE mdFile[Len(mdFile)])
                        \o " #" \o ToString(k - 1)
        /\ \A k \in 1..(Len(mdRecords) - 1) :
              mdRecords[k].md.position.start.line
                  < mdRecords[k + 1].md.position.start.line

\* a code block inside a block quote, then one at the top level
C7_Witness ==
    /\ mdPc = "done"
    /\ Len(mdRecords) = 2
    /\ mdDoc.blocks[1].depth = 1
    /\ mdDoc.blocks[2].depth = 0
    /\ mdRecords[1].name = "a.md #0"
    /\ mdRecords[2].name = "a.md #1"

-----------------------------------------------------------------------------
(* Claims about the examples generateTests renders *)

\* the tag is some text, then notest, then some text
TaggedNotest(lang) ==
    \E i, j \in 0..Len(lang) :
        lang = SubSeq(lang, 1, i) \o Notest \o SubSeq(lang, j + 1, Len(lang))

\* C14: the examples handed to the renderer are the examples found, in their
\* order, less those whose language tag holds notest (an example without a tag
\* is handed on); and no block tagged notest of a markdown file has a record
\* among them.
C14_NotestRejected ==
    gtPc = "rendered" =>
        /\ batch = SelectSeq(docExamples \o mdExamples,
                             LAMBDA e : e.lang = JSNull \/ ~TaggedNotest(e.lang))
        /\ \A f \in 1..Len(markdownSource) :
               \A i \in 1..Len(markdownSource[f].md.blocks) :
                   TaggedNotest(markdownSource[f].md.blocks[i].lang) =>
                       ~\E e \in 1..Len(batch) :
                           /\ batch[e].file = markdownSource[f].file
                           /\ "doc" \notin DOMAIN batch[e]
                           /\ batch[e].line = BlockStart(markdownSource[f].md, i) + 1

\* a block tagged js,notest of one file is left out, the block tagged js of
\* another file and an @example without a tag are handed on
C14_Witness ==
    /\ gtPc = "rendered"
    /\ Len(markdownSource) = 2
    /\ Len(mdExamples) = 2
    /\ mdExamples[1].lang = <<"j", "s", ",">> \o Notest
    /\ mdExamples[2].lang = <<"j", "s">>
    /\ Len(docExamples) = 1
    /\ batch = <<docExamples[1], mdExamples[2]>>
    /\ batch[1].lang = JSNull

-----------------------------------------------------------------------------
(* Claims about the exec command *)

\* a message of stderr
Reported(msg) == \E i \in 1..Len(stderr) : stderr[i] = msg

\* a command was given in the arguments (before or after --)
GivenInArgs == Len(params.argsCommand) + Len(params.unparsed) > 0

\* a command was given with -c
GivenWithC == params.command # JSUndefined

\* what the handler of exec does to a command line of neither or both
\* forms: the help and the message on stderr, exit status 1
RefusedByHandler ==
    /\ stderr = <<MsgHelpExec, MsgNoCommand>>
    /\ exitCode = 1

\* C15, as stated: unless exactly one of the two forms of the command is
\* given, exec prints the message (after the help) and the process exits
\* with 1: the temporary directory is never made and no command is spawned.
\* When exactly one is given the message is not printed.
C15_ExactlyOneCommandForm ==
    params.name = "exec" =>
        IF GivenInArgs # GivenWithC
        THEN \A i \in 1..Len(stderr) : stderr[i] # MsgNoCommand
        ELSE /\ ~tmp.exists /\ ~tmp.hook
             /\ child = NoChild
             /\ execPc \in {"parse", "handler", "exited"}
             /\ execPc = "exited" => RefusedByHandler

\* C15, amended: as above, but the message and the exit status 1 are those
\* of a command line yargs itself neither answers (--help, --version,
\* completion) nor objects to (an unknown argument, an option without its
\* value); yargs ends the process on the others, before the handler runs,
\* with its own output and status.
C15_ExactlyOneCommandFormParsed ==
    params.name = "exec" =>
        IF GivenInArgs # GivenWithC
        THEN \A i \in 1..Len(stderr) : stderr[i] # MsgNoCommand
        ELSE /\ ~tmp.exists /\ ~tmp.hook
             /\ child = NoChild
             /\ execPc \in {"parse", "handler", "exited"}
             /\ execPc = "exited" =>
                    IF params.parsed = "ok"
                    THEN RefusedByHandler
                    ELSE /\ ~Reported(MsgNoCommand)
                         /\ exitCode = IF params.parsed \in YargsAnswers
                                       THEN 0 ELSE 1

\* both forms given: echo after --, and -c with the empty string
C15_Witness ==
    /\ execPc = "exited"
    /\ params.name = "exec"
    /\ params.parsed = "ok"
    /\ params.argsCommand = <<>>
    /\ params.unparsed = <<"echo">>
    /\ params.command = ""
    /\ stderr = <<MsgHelpExec, MsgNoCommand>>
    /\ exitCode = 1

-----------------------------------------------------------------------------
(* Claims about cliGenerate *)

\* the place of the source map when -o is given
MapPath ==
    IF cliParams.sourcemap # JSUndefined THEN cliParams.sourcemap
    ELSE SubSeq(cliParams.out, 1, Len(cliParams.out) - 1)
             \o <<cliParams.out[Len(cliParams.out)] \o ".map">>

\* C16: when cliGenerate has returned: with -o the file out holds the test text
\* and then the line of the sourceMappingURL, the source map is at the place
\* given with -m, or at out + '.map', and nothing went to stdout; with neither
\* -o nor -m the test text went to stdout as it is and no file was written.
\* So the text on stdout is a prefix of the file written with -o.
C16_CliGenerateOutputs ==
    cliPc = "done" =>
        IF cliParams.out # JSUndefined
        THEN /\ DOMAIN written = {cliParams.out, MapPath}
             /\ stdout = <<>>
             /\ Len(written[cliParams.out]) = Len(testData) + 3
             /\ SubSeq(written[cliParams.out], 1, Len(testData)) = testData
             /\ written[cliParams.out][Len(testData) + 1] = LF
             /\ written[cliParams.out][Len(testData) + 2] =
                    "//# sourceMappingURL="
                        \o JoinPath(Relative(Dirname(cliParams.out), MapPath))
             /\ written[cliParams.out][Len(testData) + 3] = LF
             /\ written[MapPath].mappings = SourcemapData.mappings
        ELSE /\ cliParams.sourcemap = JSUndefined
             /\ stdout = testData
             /\ written = <<>>

\* -o t/out.js without -m: the map is t/out.js.map, the trailer names it
\* relative to t
C16_Witness ==
    /\ cliPc = "done"
    /\ cliParams.out # JSUndefined
    /\ cliParams.out = <<"t", "out.js">>
    /\ cliParams.sourcemap = JSUndefined
    /\ testData = <<"x", LF>>
    /\ written[<<"t", "out.js">>] =
           <<"x", LF, LF, "//# sourceMappingURL=out.js.map", LF>>
    /\ <<"t", "out.js.map">> \in DOMAIN written

-----------------------------------------------------------------------------
(* Claims about findPkg *)

\* the directory findPkg was started in: the deepest of the file system
PkgStart == CHOOSE d \in DOMAIN pkgFs : \A e \in DOMAIN pkgFs : Len(e) <= Len(d)

\* the start directory and its parents, the start first
UpFrom(dir) == [i \in 1..(Len(dir) + 1) |-> SubSeq(dir, 1, Len(dir) + 1 - i)]

\* the directories findPkg may look into: all of UpFrom with tryParents
Searched == IF tryParents THEN UpFrom(PkgStart) ELSE <<PkgStart>>

\* the first place of seq that satisfies Test, 0 if there is none
FirstWith(seq, Test(_)) ==
    IF \E i \in 1..Len(seq) : Test(seq[i])
    THEN CHOOSE i \in 1..Len(seq) :
             Test(seq[i]) /\ \A j \in 1..(i - 1) : ~Test(seq[j])
    ELSE 0

\* the directory holds a package.json (if one was removed during the search,
\* the directory does not hold one)
HasPkg(dir) == pkgFs[dir] # "none"

\* findPkg has examined the start directory and then its parents in order,
\* and only the start directory without tryParents
ExaminedInOrder ==
    /\ Len(examined) <= Len(Searched)
    /\ \A i \in 1..Len(examined) : examined[i] = Searched[i]

\* C17, as stated: findPkg ends; it examines the start directory and then its
\* parents in order (only the start directory without tryParents); it returns
\* [directory, name] for the first directory that has a package.json, and
\* fails with ENOENT when none of them has one.
C17_FindPkg ==
    /\ <>(pkgPc \in {"done", "failed"})
    /\ [](ExaminedInOrder
          /\ (pkgPc \in {"done", "failed"} =>
                LET first == FirstWith(Searched, HasPkg)
                IN IF first # 0
                   THEN /\ pkgPc = "done"
                        /\ pkgResult = <<Searched[first], PkgName>>
                        /\ Len(examined) = first
                   ELSE /\ pkgPc = "failed"
                        /\ pkgResult.code = "ENOENT"
                        /\ Len(examined) = Len(Searched)))

\* C17, amended: as above, but the first directory that has a package.json
\* ends the search either way: findPkg returns [directory, name] if the file
\* parses and holds a name, and fails with the error of that file if not.
C17_FindPkgFirstPackageJson ==
    /\ <>(pkgPc \in {"done", "failed"})
    /\ [](ExaminedInOrder
          /\ (pkgPc \in {"done", "failed"} =>
                LET first == FirstWith(Searched, HasPkg)
                IN IF first # 0 /\ pkgFs[Searched[first]] = "valid"
                   THEN /\ pkgPc = "done"
                        /\ pkgResult = <<Searched[first], PkgName>>
                        /\ Len(examined) = first
                   ELSE IF first # 0
                   THEN /\ pkgPc = "failed"
                        /\ pkgResult = PkgError(pkgFs[Searched[first]])
                        /\ pkgResult.code # "ENOENT"
                        /\ Len(examined) = first
                   ELSE /\ pkgPc = "failed"
                        /\ pkgResult.code = "ENOENT"
                        /\ Len(examined) = Len(Searched)))

\* started three directories below the root, with the only package.json in
\* the directory just below the root: three directories examined
C17_Witness ==
    /\ pkgPc = "done"
    /\ tryParents
    /\ examined = <<<<"d1", "d2", "d3">>, <<"d1", "d2">>, <<"d1">>>>
    /\ pkgResult = <<<<"d1">>, PkgName>>

-----------------------------------------------------------------------------
(* Claims about rmRecursiveSync *)

\* rmRecursiveSync(p) has returned; neither p nor anything below p exists,
\* every directory was removed after all that was below it, and everything
\* outside of the subtree of p is as it was
RemovedSubtreeOnly ==
    /\ rmPc = "returned"
    /\ \A q \in DOMAIN rmFs0 :
         IF Below(q, rmFile)
         THEN q \notin DOMAIN rmFs
         ELSE q \in DOMAIN rmFs /\ rmFs[q] = rmFs0[q]
    /\ DOMAIN rmFs \subseteq DOMAIN rmFs0
    /\ \A i, j \in 1..Len(rmLog) :
         (rmLog[j] # rmLog[i] /\ Below(rmLog[j], rmLog[i])) => j < i

\* C18: rmRecursiveSync(p) returns, and then neither p nor anything below p
\* exists, every directory was removed after all that was below it, and
\* everything outside of the subtree of p is as it was.
C18_RemovesSubtreeOnly == rmPc # "call" => RemovedSubtreeOnly

\* What holds of the code: the same for every p that is not itself a
\* symbolic link, whatever links lie below it.
RemovesSubtreeUnlessLink ==
    (rmPc # "call" /\ rmFs0[rmFile] # "link") => RemovedSubtreeOnly

\* p is a symbolic link to a directory: what the directory held is removed,
\* the call throws and p is still there
C18_LinkFollowed ==
    /\ rmPc = "threw"
    /\ rmFs0[rmFile] = "link"
    /\ rmFile \in DOMAIN rmFs
    /\ <<"o", "x">> \notin DOMAIN rmFs

\* a directory holding a directory with a file in it and a link to the
\* directory outside has been removed
C18_Witness ==
    /\ rmPc = "returned"
    /\ rmFile = TmpRoot
    /\ <<"t", "a", "a">> \in DOMAIN rmFs0
    /\ rmFs0[<<"t", "a", "a">>] = "file"
    /\ <<"t", "b">> \in DOMAIN rmFs0
    /\ rmFs0[<<"t", "b">>] = "link"
    /\ rmLog = <<<<"t", "a", "a">>, <<"t", "a">>, <<"t", "b">>, <<"t">>>>

-----------------------------------------------------------------------------
(* Claims about _requireNocache *)

\* C19: after any sequence of calls, _requireNocache(mod) has returned an
\* instance that is not the one cached before the call, and require.cache is
\* as it was before the call: the same instance for mod if there was one, no
\* entry if there was none.
C19_NocacheLeavesCache ==
    lastCall.op = "nocache" =>
      /\ lastCall.r # NoEntry
      /\ lastCall.r # lastCall.before[lastCall.mod]
      /\ requireCache = lastCall.before

\* _requireNocache on a cached module after an earlier _requireNocache:
\* the third instance is returned, the first is still the cached one
C19_Witness ==
    /\ lastCall.op = "nocache"
    /\ lastCall.mod = "squirrelly"
    /\ lastCall.before["squirrelly"] = 1
    /\ lastCall.r = 3
    /\ requireCache["squirrelly"] = 1
    /\ requireCache["yargs"] = NoEntry

-----------------------------------------------------------------------------
(* Claims about the start line of extractFromMdast *)

\* the number of newline-delimited lines of a value
ValueLines(value) == 1 + Cardinality({i \in 1..Len(value) : value[i] = LF})

\* the reported line span of a node
LineSpan(md) == md.position.end.line - md.position.start.line + 1

\* C20, as stated: the recorded line is the start line plus one exactly when
\* the line span of the code node exceeds the number of lines of its value by
\* one, and the start line otherwise.
C20_AdvanceWhenSpanExceedsByOne ==
    mdPc = "done" =>
        \A k \in 1..Len(mdRecords) :
            LET md == mdRecords[k].md
            IN mdRecords[k].line =
                   IF LineSpan(md) = ValueLines(md.value) + 1
                   THEN md.position.start.line + 1
                   ELSE md.position.start.line

\* C20, amended: the recorded line is the start line plus one exactly when
\* the line span of the code node differs from the number of lines of its
\* value, by whatever amount (two for a closed fence), and the start line
\* otherwise.
C20_AdvanceWhenSpanDiffers ==
    mdPc = "done" =>
        \A k \in 1..Len(mdRecords) :
            LET md == mdRecords[k].md
            IN mdRecords[k].line =
                   IF LineSpan(md) # ValueLines(md.value)
                   THEN md.position.start.line + 1
                   ELSE md.position.start.line

\* a closed fence with two lines of body: the span of four exceeds the two
\* lines of the value by two, and the line is advanced
C20_Witness ==
    /\ mdPc = "done"
    /\ \E k \in 1..Len(mdRecords) :
          LET md == mdRecords[k].md
          IN /\ LineSpan(md) = 4
             /\ ValueLines(md.value) = 2
             /\ mdRecords[k].line = md.position.start.line + 1

-----------------------------------------------------------------------------
(* Claims about the substitution sites of generatingSourceMap *)

RECURSIVE LineStart(_, _)
\* the offset (from 0) at which the line of the rendered text that holds
\* offset at begins
LineStart(t, at) ==
    IF at = 0 \/ t[at] = LF THEN at ELSE LineStart(t, at - 1)

\* what precedes offset at on its line
LinePrefix(t, at) == Slice(t, LineStart(t, at), at)

\* C21: every placeholder that was substituted has nothing but spaces and
\* tabs before it on its line of the rendered text, and the indent captured
\* with it (the generated column of its mappings) is that whole prefix.
C21_SitesAnchored ==
    \A i \in 1..Len(sites) :
        /\ \A j \in 1..Len(LinePrefix(gen, sites[i].at)) :
               IsWs(LinePrefix(gen, sites[i].at)[j])
        /\ sourceMap[i].generated.column = Len(LinePrefix(gen, sites[i].at))

\* What holds of the code: the captured indent is a run of spaces and tabs
\* that ends at the placeholder, wherever on its line the placeholder stands.
SitesTakeBlanksBefore ==
    \A i \in 1..Len(sites) :
        LET prefix == LinePrefix(gen, sites[i].at)
            col == sourceMap[i].generated.column
        IN /\ col <= Len(prefix)
           /\ \A j \in (Len(prefix) - col + 1)..Len(prefix) : IsWs(prefix[j])

\* C22: whatever the renderer did with the placeholders, the generated line
\* of every mapping is 1 plus the number of line feeds of the output text
\* before the code line the mapping was added for (sites[i].out is the length
\* of the output when that line was written).
C22_GeneratedLineIsOutputLine ==
    \A i \in 1..Len(sourceMap) :
        /\ sites[i].out <= Len(Output)
        /\ sourceMap[i].generated.line =
               1 + CountLF(SubSeq(Output, 1, sites[i].out))

\* a placeholder of an unknown token on the second line and the code of the
\* second example on the third: its mapping is on line 3
C22_Witness ==
    /\ pc = "done"
    /\ Len(exampleCache) = 2
    /\ gen = <<LF, Placeholder(ForeignToken), LF,
               Placeholder(exampleCache[2].id)>>
    /\ Len(sourceMap) = 1
    /\ sourceMap[1].generated.line = 3
    /\ sourceMap[1].source = F2

\* position p of the rendered text holds the placeholder of an example of
\* the call
Recognised(p) ==
    IsPlaceholder(gen[p]) /\ InCache(exampleCache, TokenOf(gen[p]))

\* the blanks directly before position p
IndentBefore(p) ==
    LET from == CHOOSE i \in 1..p :
                    /\ \A r \in i..(p - 1) : IsWs(gen[r])
                    /\ i > 1 => ~IsWs(gen[i - 1])
    IN SubSeq(gen, from, p - 1)

\* what the output holds for position p of the rendered text: the code lines
\* for a recognised placeholder, nothing for a blank of its indent, and the
\* character itself otherwise
Piece(p) ==
    IF Recognised(p)
    THEN LET lines == SplitLines(Cached(exampleCache, TokenOf(gen[p])).code)
         IN Flatten([k \in 1..Len(lines) |->
                        IndentBefore(p) \o lines[k] \o <<LF>>])
    ELSE IF \E q \in (p + 1)..Len(gen) :
                Recognised(q) /\ \A r \in p..(q - 1) : IsWs(gen[r])
    THEN <<>>
    ELSE <<gen[p]>>

\* C23: the text a call returns is the rendered text with every recognised
\* placeholder and its indent replaced by the code lines, each behind that
\* indent and ended by a line feed, and everything else as it was; without a
\* recognised placeholder it is the rendered text, and there is no mapping.
C23_OutputIsRenderedText ==
    pc = "done" =>
        /\ result.text = Flatten([p \in 1..Len(gen) |-> Piece(p)])
        /\ (\A p \in 1..Len(gen) : ~Recognised(p)) =>
               /\ result.text = gen
               /\ result.sourceMap = <<>>

\* the two lines of the first example behind an indent of one space, between
\* a line feed and an x
C23_Witness ==
    /\ pc = "done"
    /\ renderer = <<LF, " ", SlotSym(1), "x">>
    /\ result.text = <<LF, " ", "a", "b", LF, " ", "b", LF, "x">>

-----------------------------------------------------------------------------
(* Claims about the code blocks of a description *)

\* the records that come from the description
FromDescription(records) == SelectSeq(records, LAMBDA r : "md" \in DOMAIN r)

RECURSIVE SumLineNumbers(_)
\* the sum of lineNumber over a sequence of tags
SumLineNumbers(tags) ==
    IF tags = <<>> THEN 0
    ELSE Head(tags).lineNumber + SumLineNumbers(Tail(tags))

DescriptionTags(d) == SelectSeq(d.tags, LAMBDA t : t.title = "description")

\* C24: the line of the record of the k-th code block of a description is
\* the line extractFromMdast gives that block in the tree of the description,
\* plus doc.loc.start.line, plus the sum of lineNumber over all tags titled
\* 'description': one shift for all blocks of the symbol.
C24_DescriptionLineShift ==
    docPc = "done" =>
        LET recs == FromDescription(docRecords)
            inTree == ExtractFromMdast(doc.description, doc.context.file)
            shift == doc.loc.start.line + SumLineNumbers(DescriptionTags(doc))
        IN /\ Len(recs) = Len(inTree)
           /\ \A k \in 1..Len(recs) : recs[k].line = inTree[k].line + shift

\* two blocks in the description of a comment that begins on line 2 and has
\* two description tags of lineNumber 1: both are shifted by 4
C24_Witness ==
    /\ docPc = "done"
    /\ doc.loc.start.line = 2
    /\ Len(DescriptionTags(doc)) = 2
    /\ SumLineNumbers(DescriptionTags(doc)) = 2
    /\ Len(FromDescription(docRecords)) = 2
    /\ FromDescription(docRecords)[1].line = 1 + 4
    /\ FromDescription(docRecords)[2].line > 1 + 4

\* "<basename of file> <symbol>" of the documented symbol
SymbolName(d) == Basename(d.context.file) \o " " \o DottedPath(d)

\* C25: of a symbol with one code block in its description and one @example
\* tag, the record of the code block is named "<file> <symbol> #0" and the
\* record of the tag "<file> <symbol> #1".
C25_DescriptionNumberedFirst ==
    (/\ docPc = "done"
     /\ Len(FromDescription(docRecords)) = 1
     /\ Len(FromTags(docRecords)) = 1) =>
        /\ FromDescription(docRecords)[1].name = SymbolName(doc) \o " #0"
        /\ FromTags(docRecords)[1].name = SymbolName(doc) \o " #1"

\* What holds of the code: the records of the tags come first and take the
\* lower numbers, those of the description follow.
TagsNumberedFirst ==
    docPc = "done" =>
        LET tags == FromTags(docRecords)
            desc == FromDescription(docRecords)
        IN /\ docRecords = tags \o desc
           /\ \A k \in 1..Len(tags) :
                 tags[k].name = SymbolName(doc) \o " #" \o ToString(k - 1)
           /\ \A k \in 1..Len(desc) :
                 desc[k].name =
                     SymbolName(doc) \o " #" \o ToString(Len(tags) + k - 1)

-----------------------------------------------------------------------------
(* Claims about the result of generatingSourceMap as a function of its     *)
(* arguments.  The renderer is a template; what a run returns is stated    *)
(* here from the template and the examples alone, without the tokens.      *)

\* the example the template pastes at position p, 0 if none
SlotAt(p) ==
    IF \E i \in 1..Len(examples) : renderer[p] = SlotSym(i)
    THEN CHOOSE i \in 1..Len(examples) : renderer[p] = SlotSym(i)
    ELSE 0

\* the blanks of the template directly before position p
TemplateIndent(p) ==
    LET from == CHOOSE i \in 1..p :
                    /\ \A r \in i..(p - 1) : IsWs(renderer[r])
                    /\ i > 1 => ~IsWs(renderer[i - 1])
    IN SubSeq(renderer, from, p - 1)

\* the text a run writes for position p of the template
TemplatePiece(p) ==
    IF SlotAt(p) # 0
    THEN LET lines == SplitLines(examples[SlotAt(p)].code)
         IN Flatten([k \in 1..Len(lines) |->
                        TemplateIndent(p) \o lines[k] \o <<LF>>])
    ELSE IF \E q \in (p + 1)..Len(renderer) :
                SlotAt(q) # 0 /\ \A r \in p..(q - 1) : IsWs(renderer[r])
    THEN <<>>
    ELSE <<renderer[p]>>

\* the text written for positions 1..p of the template
TemplateText(p) == Flatten([q \in 1..p |-> TemplatePiece(q)])

\* the mappings a run adds for position p of the template
TemplateMappings(p) ==
    IF SlotAt(p) = 0 THEN <<>>
    ELSE LET ex == examples[SlotAt(p)]
             lines == SplitLines(ex.code)
         IN [k \in 1..Len(lines) |->
               [source |-> ex.file,
                original |->
                    [column |-> Len(SplitLines(Disk[ex.file])[ex.line + k - 1])
                                    - Len(lines[k]),
                     line |-> ex.line + k - 1],
                generated |->
                    [line |-> CountLF(TemplateText(p - 1)) + k,
                     column |-> Len(TemplateIndent(p))]]]

\* C26: what a run returns is fixed by the examples and the renderer,
\* whatever tokens it drew: the examples keep their names, the text and the
\* mappings are those read off the template, and no placeholder of an
\* example of the call is left in the text.
C26_ResultIndependentOfTokens ==
    pc = "done" =>
        /\ \A i \in 1..Len(examples) :
               exampleCache[i].example.name = examples[i].name
        /\ result.text = TemplateText(Len(renderer))
        /\ result.sourceMap =
               Flatten([p \in 1..Len(renderer) |-> TemplateMappings(p)])
        /\ \A j \in 1..Len(result.text) :
               IsPlaceholder(result.text[j]) =>
                   ~InCache(exampleCache, TokenOf(result.text[j]))

\* a run that drew the tokens in the other order and wrote both examples
C26_Witness ==
    /\ pc = "done"
    /\ Len(exampleCache) = 2
    /\ exampleCache[1].id = "u2"
    /\ exampleCache[2].id = "u1"
    /\ renderer = <<LF, SlotSym(2), LF, SlotSym(1)>>
    /\ Len(result.sourceMap) = 3

-----------------------------------------------------------------------------
(* Claims about findMarkdownExamples and _findFs *)

RECURSIVE Walk(_, _)
\* the paths below p in the order of the listings, a directory before its
\* contents
Walk(p, fn) ==
    (IF Accepts(fn, p) THEN <<p>> ELSE <<>>)
        \o (IF IsDirectory(p)
            THEN Flatten([k \in 1..Len(Listing[p]) |->
                             Walk(Append(p, Listing[p][k]), fn)])
            ELSE <<>>)

\* the paths of all arguments, in the order of the arguments
WalkAll == Flatten([i \in 1..Len(findPaths) |-> Walk(findPaths[i], findFn)])

\* C27: whatever the order in which the operations completed, the paths are
\* those of the arguments in their order, each directory before its contents
\* in the order of its listing, and the records are those of the files in
\* that order, the records of one file in the order of its text.
C27_OrderByInputNotCompletion ==
    findPc = "done" =>
        /\ findFiles = WalkAll
        /\ findResult =
               IF findFn = "md"
               THEN Flatten([k \in 1..Len(WalkAll) |->
                                ExtractFromMarkdown(MdText(WalkAll[k]),
                                                    WalkAll[k])])
               ELSE WalkAll

\* the files of docs were read in the reverse of their order, after the
\* listing of docs/sub had completed before the stat of r.md
C27_Witness ==
    /\ findPc = "done"
    /\ findFn = "md"
    /\ findPaths = <<<<"r.md">>, <<"docs">>>>
    /\ findSettled[1] = Op("stat", 2, <<"docs">>)
    /\ findSettled[Len(findSettled)] = Op("readFile", 1, <<"r.md">>)
    /\ Len(findResult) = 5
    /\ findResult[1].file = <<"r.md">>
    /\ findResult[4].name = "a.md #0"
    /\ findResult[5].name = "a.md #1"

-----------------------------------------------------------------------------
(* Claims about the order of the steps of exec *)

\* both writes of cliGenerate were issued and have succeeded
Generated == DOMAIN tmpWrites = TmpFiles /\ Fulfilled(tmpWrites)

\* C28: spawn has been called only if NODE_PATH and DOCTEST_FILE are set and
\* the test file and its source map are written, and as long as the process
\* waits for the command the temporary directory holds node_modules, the
\* link to the package, the test file and its source map; after a failure
\* to find package.json, or of one of the steps before the spawn, spawn is
\* not called.
C28_SpawnAfterSetup ==
    /\ child # NoChild =>
          /\ execPc \in {"running", "ending", "exited"}
          /\ envSet = {"NODE_PATH", "DOCTEST_FILE"}
          /\ Generated
          /\ execPc = "running" =>
                /\ tmp.exists /\ tmp.nodeModules /\ tmp.link
                /\ tmp.testFile /\ tmp.map
    /\ (\/ Reported(MsgFindPkg) \/ Reported(MsgParsePkg)
        \/ Reported(MsgNoCommand) \/ Reported(MsgNoCommandName)
        \/ (execPc = "exited" /\ ~Generated))
          => child = NoChild

\* the command of -c runs, everything is in place
C28_Witness ==
    /\ execPc = "running"
    /\ child # NoChild
    /\ child.shell
    /\ tmp.map
    /\ envSet = {"NODE_PATH", "DOCTEST_FILE"}

\* C29: the temporary directory exists as long as the child runs, and it is
\* gone once the process has exited, whichever way it exited.
C29_TmpDirForWholeRun ==
    /\ child.running => tmp.exists
    /\ execPc = "exited" => ~tmp.exists

\* What holds of the code: the directory exists while the process waits for
\* the child and is gone once the process has exited; a child that outlives
\* the process runs without it.
TmpDirWhileProcessLives ==
    /\ execPc = "running" => tmp.exists
    /\ execPc = "exited" => ~tmp.exists

\* the process has exited because the child it waited for had ended
ExitedWithChild ==
    execPc = "exited" /\ exitCode # 128 /\ child.ended \in {"code", "signal"}

\* C30: when exec ends with its child, its exit status is that of the child:
\* the child's exit code, and not 0 when the child exited with another code
\* or was ended by a signal.
C30_ExitStatusOfChild ==
    ExitedWithChild =>
        /\ child.ended = "code" => exitCode = child.code
        /\ (child.ended = "signal" \/ child.code # 0) => exitCode # 0

\* What holds of the code: the status is the child's exit code, and 0 when a
\* signal ended the child.
ExitStatusOrZero ==
    ExitedWithChild =>
        exitCode = IF child.ended = "signal" THEN 0 ELSE child.code

=============================================================================
